---- MODULE Spec2Model ----
(***************************************************************************)
(* CryptoQuest backend: the score-submission and aggregation core.         *)
(*                                                                         *)
(* Spec        the MongoDB revision   (src/server.js 1-477,                *)
(*                                     src/database.js 1-343)              *)
(* SpecSqlite  the SQLite wallet revision's score submission               *)
(*                                    (src/server.js 701-797,              *)
(*                                     src/database.js 344-389)            *)
(*                                                                         *)
(* A handler is modelled as one action per run-to-completion block of the  *)
(* event loop: the store operation it awaited, executed atomically by the  *)
(* store, followed by the handler's code up to its next await or to its    *)
(* response.                                                               *)
(***************************************************************************)
EXTENDS Integers, Sequences, FiniteSets, TLC

(***************************************************************************)
(* Bounds of the model.                                                    *)
(***************************************************************************)
NumSlots == 2           \* requests that can be in flight at the same time
MaxUserRequests == 2    \* POST /api/users requests received in a run
MaxScoreRequests == 2   \* POST /api/scores requests received in a run

Slots == 1..NumSlots

(***************************************************************************)
(* JavaScript values, each a record tagged with its typeof.  A string is   *)
(* [body, upper, pad]: its letters, whether they are written in upper      *)
(* case, and the number of whitespace characters around them.              *)
(***************************************************************************)
Undefined == [t |-> "undefined"]
Null == [t |-> "null"]
Num(n) == [t |-> "number", v |-> n]
Str(body, upper, pad) == [t |-> "string", body |-> body, upper |-> upper, pad |-> pad]
Plain(body) == Str(body, FALSE, 0)

\* mutant: the text is used in the case it was sent in
toLowerCaseAsSent(s) == s

toLowerCase(s) == [s EXCEPT !.upper = FALSE]
trim(s) == [s EXCEPT !.pad = 0]
length(s) == Len(s.body) + s.pad

\* !x of JavaScript: undefined, null, 0 and "" are falsy
Falsy(x) ==
    \/ x.t \in {"undefined", "null"}
    \/ x.t = "number" /\ x.v = 0
    \/ x.t = "string" /\ length(x) = 0

(***************************************************************************)
(* Program constants.                                                      *)
(***************************************************************************)
DefaultMaxScore == 20
MinUsernameLength == 3
MaxUsernameLength == 30
RewardThreshold == 70

(***************************************************************************)
(* Request fields the model draws from.                                    *)
(***************************************************************************)
HexBodies == {"0xa", "0xb", "0xc"}      \* stand for 0x + 40 hexadecimal digits
IpfsBodies == {"ipfs://pic"}

\* the profile requests tried: two registrations, the first one also with its
\* identifier in upper case, and one request per validation failure
UsersBodies ==
    {[walletAddress |-> w, username |-> Plain("Alice"), profilePictureUrl |-> Undefined] :
        w \in {Plain("0xa"), Str("0xa", TRUE, 0), Str("0xa", FALSE, 1), Undefined}}
    \cup
    {[walletAddress |-> Plain("0xb"), username |-> u, profilePictureUrl |-> Undefined] :
        u \in {Plain("Bob"), Plain("Al")}}

\* the submissions tried: every combination of identifier, quiz and score, and
\* one request per validation failure
ScoresBodies ==
    [walletAddress : {Plain("0xa"), Str("0xa", TRUE, 0), Str("0xa", FALSE, 1), Plain("0xb")},
     quizId : {Plain("q1"), Plain("q2")},
     score : {Num(1), Num(2)},
     difficulty : {Plain("medium")},
     maxScore : {Undefined}]
    \cup
    {[walletAddress |-> Plain("0xa"), quizId |-> Plain("q1"), score |-> sc,
      difficulty |-> Plain("medium"), maxScore |-> Undefined] :
        sc \in {Undefined, Plain("7"), Num(0 - 1), Num(DefaultMaxScore + 1)}}
    \cup
    {[walletAddress |-> Plain("0xa"), quizId |-> Plain("q1"), score |-> Num(2),
      difficulty |-> d, maxScore |-> m] :
        d \in {Undefined, Str("hard", TRUE, 0), Plain("extreme")},
        m \in {Undefined, Num(1)}}

(***************************************************************************)
(* State of the MongoDB revision.                                          *)
(***************************************************************************)
VARIABLES
    dbReady,        \* server.js:35
    users,          \* the users collection, in insertion order
    scores,         \* the scores collection, in insertion order
    handlers,       \* per slot: the request being handled, its position, its response
    userRequests,   \* POST /api/users requests received so far
    scoreRequests,  \* POST /api/scores requests received so far
    accepted,       \* the 201 responses of POST /api/scores sent so far
    storeFailed     \* a store operation has thrown

vars == <<dbReady, users, scores, handlers, userRequests, scoreRequests,
          accepted, storeFailed>>

Idle == [op |-> "none", pc |-> "idle", body |-> Null, user |-> Null,
         newScore |-> Null, resp |-> Null]

\* a request is taken by the first free slot
Free(s) ==
    /\ handlers[s].pc = "idle"
    /\ \A r \in Slots : r < s => handlers[r].pc # "idle"

Init ==
    /\ dbReady = FALSE
    /\ users = <<>>
    /\ scores = <<>>
    /\ handlers = [s \in Slots |-> Idle]
    /\ userRequests = 0
    /\ scoreRequests = 0
    /\ accepted = {}
    /\ storeFailed = FALSE

(***************************************************************************)
(* Utilities of server.js.                                                 *)
(***************************************************************************)
isValidWalletAddress(address) ==
    address.t = "string" /\ address.body \in HexBodies /\ address.pad = 0

isValidIPFSUrl(url) ==
    IF Falsy(url) THEN TRUE ELSE url.body \in IpfsBodies

Min(S) == CHOOSE m \in S : \A n \in S : m <= n

\* Math.round of the fraction n / d, for n >= 0 and d > 0
Round(n, d) == (2 * n + d) \div (2 * d)

(***************************************************************************)
(* The store: database.js, class Database.  Each operator gives what the   *)
(* operation returns or the document it writes in the current state.       *)
(***************************************************************************)
\* findOne({ walletAddress }) on users
FindUser(key) ==
    LET hits == {i \in DOMAIN users : users[i].walletAddress = key}
    IN  IF hits = {} THEN Null ELSE users[Min(hits)]

\* mutant: the users collection has no unique index
NoUserIndex(doc) == FALSE

\* the unique index wallet_address_unique
UserIndexConflict(doc) ==
    \E i \in DOMAIN users : users[i].walletAddress = doc.walletAddress

\* mutant: the scores collection has no unique index
NoScoreIndex(doc) == FALSE

\* the unique index wallet_quiz_unique
ScoreIndexConflict(doc) ==
    \E i \in DOMAIN scores :
        /\ scores[i].walletAddress = doc.walletAddress
        /\ scores[i].quizId = doc.quizId

\* mutant: the lookup uses the identifier as it was sent
getUserByWalletAsSent(walletAddress) == FindUser(walletAddress)

getUserByWallet(walletAddress) == FindUser(trim(toLowerCase(walletAddress)))

\* the document createUser builds (database.js 109-117)
NewUser(userData) ==
    [t |-> "object",
     _id |-> Len(users) + 1,
     walletAddress |-> trim(toLowerCase(userData.walletAddress)),
     username |-> trim(userData.username),
     profilePictureUrl |->
        IF Falsy(userData.profilePictureUrl) THEN Null
        ELSE trim(userData.profilePictureUrl),
     totalScore |-> 0,
     level |-> "beginner"]

\* what createUser throws, "" when it inserts
createUserError(userData, fail) ==
    LET user == NewUser(userData)
    IN  IF ~isValidWalletAddress(user.walletAddress) THEN "INVALID_WALLET_FORMAT"
        ELSE IF length(user.username) < MinUsernameLength
                \/ length(user.username) > MaxUsernameLength
             THEN "INVALID_USERNAME_LENGTH"
        ELSE IF UserIndexConflict(user) THEN "USER_ALREADY_EXISTS"
        ELSE IF fail THEN "DATABASE_CREATE_ERROR"
        ELSE ""

\* mutant: the update replaces the document by a fresh profile
ReplaceProfile(doc, updateData) ==
    [doc EXCEPT !.username = trim(updateData.username), !.totalScore = 0]

\* the $set of updateUser (database.js 158-174)
UpdateFields(doc, updateData) ==
    LET named == IF Falsy(updateData.username) THEN doc
                 ELSE [doc EXCEPT !.username = trim(updateData.username)]
    IN  IF updateData.profilePictureUrl = Undefined THEN named
        ELSE [named EXCEPT !.profilePictureUrl =
                IF Falsy(updateData.profilePictureUrl) THEN Null
                ELSE trim(updateData.profilePictureUrl)]

updateUserError(updateData, fail) ==
    IF /\ ~Falsy(updateData.username)
       /\ \/ length(trim(updateData.username)) < MinUsernameLength
          \/ length(trim(updateData.username)) > MaxUsernameLength
    THEN "INVALID_USERNAME_LENGTH"
    ELSE IF fail THEN "DATABASE_UPDATE_ERROR"
    ELSE ""

\* mutant: the updated document is written over the first document of the
\* collection instead of the one that matched
UsersAfterFirst(key, updated) ==
    IF users = <<>> \/ updated = Null THEN users ELSE [users EXCEPT ![1] = updated]

\* mutant: findOneAndUpdate with upsert, inserting when nothing matches
UsersAfterUpsert(key, updated) ==
    LET hits == {i \in DOMAIN users : users[i].walletAddress = key}
    IN  IF hits = {} THEN Append(users, updated)
        ELSE [users EXCEPT ![Min(hits)] = updated]

\* mutant: findOneAndDelete, the matching document is removed
UsersAfterDelete(key, updated) ==
    SelectSeq(users, LAMBDA doc : doc.walletAddress # key)

\* findOneAndUpdate: the collection with its first match replaced by the
\* updated document
UsersAfter(key, updated) ==
    LET hits == {i \in DOMAIN users : users[i].walletAddress = key}
    IN  IF hits = {} THEN users ELSE [users EXCEPT ![Min(hits)] = updated]

\* mutant: createScore stores the identifier as it was sent
NewScoreAsSent(scoreData) ==
    LET maxScore == IF Falsy(scoreData.maxScore) THEN DefaultMaxScore
                    ELSE scoreData.maxScore.v
    IN  [t |-> "object",
         _id |-> Len(scores) + 1,
         walletAddress |-> scoreData.walletAddress,
         quizId |-> scoreData.quizId,
         score |-> scoreData.score.v,
         difficulty |-> scoreData.difficulty,
         maxScore |-> maxScore,
         percentage |-> <<100 * scoreData.score.v, maxScore>>]

\* mutant: the percentage is taken over the default maximum
NewScoreOverDefault(scoreData) ==
    LET maxScore == IF Falsy(scoreData.maxScore) THEN DefaultMaxScore
                    ELSE scoreData.maxScore.v
    IN  [t |-> "object",
         _id |-> Len(scores) + 1,
         walletAddress |-> toLowerCase(scoreData.walletAddress),
         quizId |-> scoreData.quizId,
         score |-> scoreData.score.v,
         difficulty |-> scoreData.difficulty,
         maxScore |-> maxScore,
         percentage |-> <<100 * scoreData.score.v, DefaultMaxScore>>]

\* the document createScore builds (database.js 221-229); percentage is the
\* fraction <<numerator, denominator>> of score / maxScore * 100
NewScore(scoreData) ==
    LET maxScore == IF Falsy(scoreData.maxScore) THEN DefaultMaxScore
                    ELSE scoreData.maxScore.v
    IN  [t |-> "object",
         _id |-> Len(scores) + 1,
         walletAddress |-> toLowerCase(scoreData.walletAddress),
         quizId |-> scoreData.quizId,
         score |-> scoreData.score.v,
         difficulty |-> scoreData.difficulty,
         maxScore |-> maxScore,
         percentage |-> <<100 * scoreData.score.v, maxScore>>]

\* mutant: the entries are not filtered by identifier
ScoresOfAnyone(key) == scores

\* find({ walletAddress }) on scores, in insertion order
ScoresOf(key) == SelectSeq(scores, LAMBDA doc : doc.walletAddress = key)

\* countDocuments({ walletAddress }) of getUserScoreHistory (database.js 250-251)
countDocuments(walletAddress) == Len(ScoresOf(toLowerCase(walletAddress)))

\* mutant: the total is overwritten ($set) instead of incremented
SetTotalScore(doc, scoreToAdd) == [doc EXCEPT !.totalScore = scoreToAdd]

\* the $inc of updateUserTotalScore (database.js 317-324)
IncTotalScore(doc, scoreToAdd) ==
    [doc EXCEPT !.totalScore = doc.totalScore + scoreToAdd]

(***************************************************************************)
(* Responses.                                                              *)
(***************************************************************************)
Response(status, message, data) ==
    [status |-> status, message |-> message, data |-> data]

\* mutant: the response is sent without return, the handler goes on
SendWithoutReturn(s, resp) ==
    handlers' = [handlers EXCEPT ![s].resp = resp]

\* res.status(..).json(..): the response is sent and the handler is over
Send(s, resp) ==
    handlers' = [handlers EXCEPT ![s] = [Idle EXCEPT !.op = handlers[s].op, !.resp = resp]]

\* mutant: the handler does not record the submission before the accrual
AwaitAccrual(s, pc) ==
    handlers' = [handlers EXCEPT ![s].pc =
                    IF pc = "createScore" THEN "updateUserTotalScore" ELSE pc]

Await(s, pc) == handlers' = [handlers EXCEPT ![s].pc = pc]

\* mutant: the catch block looks for a text no thrown message contains
includesNothing(message, part) == FALSE

\* String.prototype.includes on the messages of the errors thrown here
includes(message, part) ==
    <<message, part>> \in {<<"Quiz already completed by this user", "already completed">>}

InternalServerError == Response(500, "Internal server error", Null)

(***************************************************************************)
(* database.connect().then(...)                        server.js 37-45     *)
(***************************************************************************)
Connect ==
    /\ ~dbReady
    /\ dbReady' = TRUE
    /\ UNCHANGED <<users, scores, handlers, userRequests, scoreRequests,
                   accepted, storeFailed>>

(***************************************************************************)
(* POST /api/users                                     server.js 99-208    *)
(***************************************************************************)
UsersReceive(s, body) ==
    /\ Free(s)
    /\ userRequests < MaxUserRequests
    /\ userRequests' = userRequests + 1
    /\ LET h == [Idle EXCEPT !.op = "users", !.body = body]
           Reject(status, message) ==
               handlers' = [handlers EXCEPT ![s] =
                              [h EXCEPT !.body = Null,
                                        !.resp = Response(status, message, Null)]]
       IN  IF ~dbReady THEN Reject(503, "Database not ready")
           ELSE IF Falsy(body.walletAddress) \/ Falsy(body.username)
                THEN Reject(400, "walletAddress and username are required")
           ELSE IF ~isValidWalletAddress(body.walletAddress)
                THEN Reject(400, "Invalid wallet address format")
           ELSE IF ~Falsy(body.profilePictureUrl) /\ ~isValidIPFSUrl(body.profilePictureUrl)
                THEN Reject(400, "Invalid profile picture URL")
           ELSE IF length(body.username) < MinUsernameLength
                   \/ length(body.username) > MaxUsernameLength
                THEN Reject(400, "Username must be between 3 and 30 characters")
           ELSE handlers' = [handlers EXCEPT ![s] = [h EXCEPT !.pc = "getUserByWallet"]]
    /\ UNCHANGED <<dbReady, users, scores, scoreRequests, accepted, storeFailed>>

\* await database.getUserByWallet(walletAddress)       server.js 136-138
UsersGetUser(s, fail) ==
    /\ handlers[s].op = "users"
    /\ handlers[s].pc = "getUserByWallet"
    /\ IF fail THEN Send(s, InternalServerError)
       ELSE IF getUserByWallet(handlers[s].body.walletAddress) # Null
            THEN Await(s, "updateUser")
       ELSE Await(s, "createUser")
    /\ storeFailed' = (storeFailed \/ fail)
    /\ UNCHANGED <<dbReady, users, scores, userRequests, scoreRequests, accepted>>

\* await database.updateUser(walletAddress, updateData) server.js 139-167
UsersUpdateUser(s, fail) ==
    /\ handlers[s].op = "users"
    /\ handlers[s].pc = "updateUser"
    /\ LET body == handlers[s].body
           updateData == [username |-> body.username,
                          profilePictureUrl |->
                              IF Falsy(body.profilePictureUrl) THEN Undefined
                              ELSE body.profilePictureUrl]
           key == trim(toLowerCase(body.walletAddress))
           updatedUser == IF FindUser(key) = Null THEN Null
                          ELSE UpdateFields(FindUser(key), updateData)
           error == updateUserError(updateData, fail)
       IN  IF error # ""
           THEN /\ Send(s, InternalServerError)
                /\ storeFailed' = (storeFailed \/ error = "DATABASE_UPDATE_ERROR")
                /\ UNCHANGED users
           ELSE /\ users' = UsersAfter(key, updatedUser)
                /\ IF updatedUser = Null
                   THEN Send(s, Response(500, "Failed to update user", Null))
                   ELSE Send(s, Response(200, "User updated successfully", updatedUser))
                /\ UNCHANGED storeFailed
    /\ UNCHANGED <<dbReady, scores, userRequests, scoreRequests, accepted>>

\* await database.createUser({...})                     server.js 168-190
UsersCreateUser(s, fail) ==
    /\ handlers[s].op = "users"
    /\ handlers[s].pc = "createUser"
    /\ LET error == createUserError(handlers[s].body, fail)
           newUser == NewUser(handlers[s].body)
       IN  IF error # ""
           THEN /\ IF includes(error, "already exists")
                   THEN Send(s, Response(409, error, Null))
                   ELSE Send(s, InternalServerError)
                /\ storeFailed' = (storeFailed \/ error = "DATABASE_CREATE_ERROR")
                /\ UNCHANGED users
           ELSE /\ users' = Append(users, newUser)
                /\ Send(s, Response(201, "User created successfully", newUser))
                /\ UNCHANGED storeFailed
    /\ UNCHANGED <<dbReady, scores, userRequests, scoreRequests, accepted>>

(***************************************************************************)
(* POST /api/scores                                    server.js 269-355   *)
(***************************************************************************)
\* const { ..., maxScore = 20 } = req.body
MaxScoreOf(body) ==
    IF body.maxScore = Undefined THEN Num(DefaultMaxScore) ELSE body.maxScore

\* mutant: the upper bound of the score is not checked
NeverGreaterThan(score, maxScore) == FALSE

\* score > maxScore of JavaScript, for a number score
GreaterThan(score, maxScore) ==
    CASE maxScore.t = "number" -> score.v > maxScore.v
      [] maxScore.t = "null" -> score.v > 0
      [] OTHER -> FALSE

ValidDifficulties ==
    {"easy", "medium", "hard", "beginner", "intermediate", "advanced"}

\* scoreData of server.js 310-316
ScoreData(body) ==
    [walletAddress |-> body.walletAddress,
     quizId |-> body.quizId,
     score |-> body.score,
     difficulty |-> toLowerCase(body.difficulty),
     maxScore |-> MaxScoreOf(body)]

ScoresReceive(s, body) ==
    /\ Free(s)
    /\ scoreRequests < MaxScoreRequests
    /\ scoreRequests' = scoreRequests + 1
    /\ LET h == [Idle EXCEPT !.op = "scores", !.body = body]
           Reject(status, message) ==
               handlers' = [handlers EXCEPT ![s] =
                              [h EXCEPT !.body = Null,
                                        !.resp = Response(status, message, Null)]]
       IN  IF ~dbReady THEN Reject(503, "Database not ready")
           ELSE IF \/ Falsy(body.walletAddress) \/ Falsy(body.quizId)
                   \/ body.score = Undefined \/ Falsy(body.difficulty)
                THEN Reject(400, "walletAddress, quizId, score, and difficulty are required")
           ELSE IF \/ body.score.t # "number" \/ body.score.v < 0
                   \/ GreaterThan(body.score, MaxScoreOf(body))
                THEN Reject(400, "Score must be a number between 0 and maxScore")
           ELSE IF toLowerCase(body.difficulty).body \notin ValidDifficulties
                   \/ toLowerCase(body.difficulty).upper
                THEN Reject(400, "Invalid difficulty")
           ELSE handlers' = [handlers EXCEPT ![s] = [h EXCEPT !.pc = "getUserByWallet"]]
    /\ UNCHANGED <<dbReady, users, scores, userRequests, accepted, storeFailed>>

\* await database.getUserByWallet(walletAddress)       server.js 299-307
ScoresGetUser(s, fail) ==
    /\ handlers[s].op = "scores"
    /\ handlers[s].pc = "getUserByWallet"
    /\ IF fail THEN Send(s, InternalServerError)
       ELSE IF getUserByWallet(handlers[s].body.walletAddress) = Null
            THEN Send(s, Response(404, "User not found. Please create profile first.", Null))
       ELSE Await(s, "createScore")
    /\ storeFailed' = (storeFailed \/ fail)
    /\ UNCHANGED <<dbReady, users, scores, userRequests, scoreRequests, accepted>>

\* await database.createScore(scoreData)               server.js 309-319
ScoresCreateScore(s, fail) ==
    /\ handlers[s].op = "scores"
    /\ handlers[s].pc = "createScore"
    /\ LET score == NewScore(ScoreData(handlers[s].body))
       IN  IF ScoreIndexConflict(score)
           THEN /\ IF includes("Quiz already completed by this user", "already completed")
                   THEN Send(s, Response(409, "Quiz already completed by this user", Null))
                   ELSE Send(s, InternalServerError)
                /\ UNCHANGED <<scores, storeFailed>>
           ELSE IF fail
           THEN /\ Send(s, InternalServerError)
                /\ storeFailed' = TRUE
                /\ UNCHANGED scores
           ELSE /\ scores' = Append(scores, score)
                /\ handlers' = [handlers EXCEPT ![s].pc = "updateUserTotalScore",
                                                ![s].newScore = score]
                /\ UNCHANGED storeFailed
    /\ UNCHANGED <<dbReady, users, userRequests, scoreRequests, accepted>>

\* await database.updateUserTotalScore(walletAddress, score)   server.js 321-337
ScoresUpdateTotal(s, fail) ==
    /\ handlers[s].op = "scores"
    /\ handlers[s].pc = "updateUserTotalScore"
    /\ LET body == handlers[s].body
           newScore == handlers[s].newScore
           key == toLowerCase(body.walletAddress)
           updatedUser == IF FindUser(key) = Null THEN Null
                          ELSE IncTotalScore(FindUser(key), body.score.v)
       IN  IF fail
           THEN /\ Send(s, InternalServerError)
                /\ storeFailed' = TRUE
                /\ UNCHANGED <<users, accepted>>
           ELSE /\ users' = UsersAfter(key, updatedUser)
                /\ UNCHANGED storeFailed
                /\ IF updatedUser = Null
                   THEN \* updatedUser is null: reading its totalScore throws
                        /\ Send(s, InternalServerError)
                        /\ UNCHANGED accepted
                   ELSE LET data ==
                              [scoreId |-> newScore._id,
                               score |-> newScore.score,
                               maxScore |-> newScore.maxScore,
                               percentage |-> Round(newScore.percentage[1],
                                                    newScore.percentage[2]),
                               difficulty |-> newScore.difficulty,
                               newTotalScore |-> updatedUser.totalScore,
                               eligibleForReward |->
                                   newScore.percentage[1] >=
                                       RewardThreshold * newScore.percentage[2]]
                        IN  /\ Send(s, Response(201, "Score submitted successfully", data))
                            /\ accepted' = accepted \cup
                                   {[scoreId |-> data.scoreId, score |-> data.score]}
    /\ UNCHANGED <<dbReady, scores, userRequests, scoreRequests>>

(***************************************************************************)
(* The MongoDB revision.                                                   *)
(***************************************************************************)
Next ==
    \/ Connect
    \/ \E s \in Slots : \E body \in UsersBodies : UsersReceive(s, body)
    \/ \E s \in Slots : \E fail \in BOOLEAN : UsersGetUser(s, fail)
    \/ \E s \in Slots : \E fail \in BOOLEAN : UsersUpdateUser(s, fail)
    \/ \E s \in Slots : \E fail \in BOOLEAN : UsersCreateUser(s, fail)
    \/ \E s \in Slots : \E body \in ScoresBodies : ScoresReceive(s, body)
    \/ \E s \in Slots : \E fail \in BOOLEAN : ScoresGetUser(s, fail)
    \/ \E s \in Slots : \E fail \in BOOLEAN : ScoresCreateScore(s, fail)
    \/ \E s \in Slots : \E fail \in BOOLEAN : ScoresUpdateTotal(s, fail)

Spec == Init /\ [][Next]_vars

(***************************************************************************)
(* The SQLite wallet revision (server.js 478-954, database.js 344-389).    *)
(* It uses the same state: users and scores are its two tables, handlers   *)
(* its requests in flight; it has no dbReady and never sets it.  A handler *)
(* is a chain of callbacks, one action per callback.                       *)
(***************************************************************************)
SqlUsersBodies ==
    {[walletAddress |-> w, username |-> Plain("Alice"), profilePicture |-> Undefined] :
        w \in {Plain("0xa"), Str("0xa", TRUE, 0), Str("0xa", FALSE, 1), Undefined}}
    \cup
    {[walletAddress |-> Plain("0xb"), username |-> u, profilePicture |-> Plain("ipfs://pic")] :
        u \in {Plain("Bob"), Undefined}}

SqlScoresBodies ==
    [walletAddress : {Plain("0xa"), Str("0xa", TRUE, 0), Str("0xa", FALSE, 1), Plain("0xb")},
     quizId : {Plain("q1"), Plain("q2")},
     score : {Num(1), Num(2)},
     difficulty : {Plain("medium")},
     maxScore : {Undefined}]
    \cup
    {[walletAddress |-> Plain("0xa"), quizId |-> Plain("q1"), score |-> sc,
      difficulty |-> d, maxScore |-> Num(2)] :
        sc \in {Undefined, Plain("7"), Num(0 - 1), Num(3)},
        d \in {Undefined, Plain("extreme")}}

\* SELECT * FROM users WHERE wallet_address = ?
SqlSelectUser(wallet_address) ==
    LET hits == {i \in DOMAIN users : users[i].wallet_address = wallet_address}
    IN  IF hits = {} THEN Undefined ELSE users[Min(hits)]

\* wallet_address TEXT UNIQUE NOT NULL                  database.js 361
SqlUserConstraint(wallet_address) ==
    \E i \in DOMAIN users : users[i].wallet_address = wallet_address

\* UNIQUE(wallet_address, quiz_id)                      database.js 381
SqlScoreConstraint(wallet_address, quiz_id) ==
    \E i \in DOMAIN scores :
        /\ scores[i].wallet_address = wallet_address
        /\ scores[i].quiz_id = quiz_id

\* UPDATE users SET username = ?, profile_picture = ? WHERE wallet_address = ?
SqlUpdateProfile(wallet_address, username, profile_picture) ==
    [i \in DOMAIN users |->
        IF users[i].wallet_address = wallet_address
        THEN [users[i] EXCEPT !.username = username, !.profile_picture = profile_picture]
        ELSE users[i]]

\* UPDATE users SET total_score = ? WHERE wallet_address = ?
SqlUpdateTotalScore(wallet_address, total_score) ==
    [i \in DOMAIN users |->
        IF users[i].wallet_address = wallet_address
        THEN [users[i] EXCEPT !.total_score = total_score]
        ELSE users[i]]

SqlError(status, message) == Response(status, message, Null)

(***************************************************************************)
(* POST /api/users                                     server.js 534-639   *)
(***************************************************************************)
SqlUsersReceive(s, body) ==
    /\ Free(s)
    /\ userRequests < MaxUserRequests
    /\ userRequests' = userRequests + 1
    /\ LET h == [Idle EXCEPT !.op = "users", !.body = body]
           Reject(status, message) ==
               handlers' = [handlers EXCEPT ![s] =
                              [h EXCEPT !.body = Null,
                                        !.resp = Response(status, message, Null)]]
       IN  IF Falsy(body.walletAddress) \/ Falsy(body.username)
           THEN Reject(400, "walletAddress and username are required")
           ELSE IF ~isValidWalletAddress(body.walletAddress)
                THEN Reject(400, "Invalid wallet address format")
           ELSE handlers' = [handlers EXCEPT ![s] = [h EXCEPT !.pc = "get"]]
    /\ UNCHANGED <<dbReady, users, scores, scoreRequests, accepted, storeFailed>>

\* callback of db.get                                   server.js 557-637
SqlUsersGet(s, fail) ==
    /\ handlers[s].op = "users"
    /\ handlers[s].pc = "get"
    /\ LET existingUser == SqlSelectUser(toLowerCase(handlers[s].body.walletAddress))
       IN  IF fail THEN Send(s, SqlError(500, "Database error"))
           ELSE IF existingUser # Undefined
                THEN handlers' = [handlers EXCEPT ![s].pc = "update",
                                                  ![s].user = existingUser]
           ELSE Await(s, "insert")
    /\ storeFailed' = (storeFailed \/ fail)
    /\ UNCHANGED <<dbReady, users, scores, userRequests, scoreRequests, accepted>>

\* callback of the UPDATE                               server.js 568-600
SqlUsersUpdate(s, fail) ==
    /\ handlers[s].op = "users"
    /\ handlers[s].pc = "update"
    /\ LET body == handlers[s].body
           profile_picture == IF Falsy(body.profilePicture)
                              THEN handlers[s].user.profile_picture
                              ELSE body.profilePicture
       IN  IF fail
           THEN /\ Send(s, SqlError(500, "Failed to update user"))
                /\ UNCHANGED users
           ELSE /\ users' = SqlUpdateProfile(toLowerCase(body.walletAddress),
                                              body.username, profile_picture)
                /\ handlers' = [handlers EXCEPT ![s].pc = "getUpdated", ![s].user = Null]
    /\ storeFailed' = (storeFailed \/ fail)
    /\ UNCHANGED <<dbReady, scores, userRequests, scoreRequests, accepted>>

\* callback of the INSERT                               server.js 603-635
SqlUsersInsert(s, fail) ==
    /\ handlers[s].op = "users"
    /\ handlers[s].pc = "insert"
    /\ LET body == handlers[s].body
           row == [t |-> "object",
                   id |-> Len(users) + 1,
                   wallet_address |-> toLowerCase(body.walletAddress),
                   username |-> body.username,
                   profile_picture |->
                       IF body.profilePicture = Undefined THEN Null
                       ELSE body.profilePicture,
                   total_score |-> 0,
                   level |-> "beginner"]
       IN  IF fail \/ SqlUserConstraint(row.wallet_address)
           THEN /\ Send(s, SqlError(500, "Failed to create user"))
                /\ UNCHANGED users
           ELSE /\ users' = Append(users, row)
                /\ Await(s, "getCreated")
    /\ storeFailed' = (storeFailed \/ fail)
    /\ UNCHANGED <<dbReady, scores, userRequests, scoreRequests, accepted>>

\* callback of the second db.get                        server.js 584-597, 619-632
SqlUsersGetAgain(s, fail) ==
    /\ handlers[s].op = "users"
    /\ handlers[s].pc \in {"getUpdated", "getCreated"}
    /\ LET user == SqlSelectUser(toLowerCase(handlers[s].body.walletAddress))
           updated == handlers[s].pc = "getUpdated"
       IN  IF fail
           THEN Send(s, SqlError(500, IF updated THEN "User updated but failed to retrieve"
                                      ELSE "User created but failed to retrieve"))
           ELSE IF updated THEN Send(s, Response(200, "User updated successfully", user))
           ELSE Send(s, Response(201, "User created successfully", user))
    /\ storeFailed' = (storeFailed \/ fail)
    /\ UNCHANGED <<dbReady, users, scores, userRequests, scoreRequests, accepted>>

(***************************************************************************)
(* POST /api/scores                                    server.js 701-797   *)
(***************************************************************************)
SqlScoresReceive(s, body) ==
    /\ Free(s)
    /\ scoreRequests < MaxScoreRequests
    /\ scoreRequests' = scoreRequests + 1
    /\ LET h == [Idle EXCEPT !.op = "scores", !.body = body]
           Reject(status, message) ==
               handlers' = [handlers EXCEPT ![s] =
                              [h EXCEPT !.body = Null,
                                        !.resp = Response(status, message, Null)]]
       IN  IF \/ Falsy(body.walletAddress) \/ Falsy(body.quizId)
              \/ body.score = Undefined \/ Falsy(body.difficulty)
           THEN Reject(400, "walletAddress, quizId, score, and difficulty are required")
           ELSE IF body.score.t # "number" \/ body.score.v < 0
                THEN Reject(400, "Score must be a non-negative number")
           ELSE handlers' = [handlers EXCEPT ![s] = [h EXCEPT !.pc = "get"]]
    /\ UNCHANGED <<dbReady, users, scores, userRequests, accepted, storeFailed>>

\* callback of db.get                                   server.js 728-795
SqlScoresGet(s, fail) ==
    /\ handlers[s].op = "scores"
    /\ handlers[s].pc = "get"
    /\ LET user == SqlSelectUser(toLowerCase(handlers[s].body.walletAddress))
       IN  IF fail THEN Send(s, SqlError(500, "Database error"))
           ELSE IF user = Undefined
                THEN Send(s, SqlError(404, "User not found. Please create profile first."))
           ELSE handlers' = [handlers EXCEPT ![s].pc = "insert", ![s].user = user]
    /\ storeFailed' = (storeFailed \/ fail)
    /\ UNCHANGED <<dbReady, users, scores, userRequests, scoreRequests, accepted>>

\* callback of the INSERT                               server.js 748-793
SqlScoresInsert(s, fail) ==
    /\ handlers[s].op = "scores"
    /\ handlers[s].pc = "insert"
    /\ LET body == handlers[s].body
           row == [t |-> "object",
                   id |-> Len(scores) + 1,
                   wallet_address |-> toLowerCase(body.walletAddress),
                   quiz_id |-> body.quizId,
                   score |-> body.score.v,
                   difficulty |-> body.difficulty,
                   max_score |-> MaxScoreOf(body).v,
                   percentage |-> <<100 * body.score.v, MaxScoreOf(body).v>>]
       IN  IF SqlScoreConstraint(row.wallet_address, row.quiz_id)
           THEN /\ Send(s, SqlError(409, "Quiz already completed"))
                /\ UNCHANGED <<scores, storeFailed>>
           ELSE IF fail
           THEN /\ Send(s, SqlError(500, "Failed to save score"))
                /\ storeFailed' = TRUE
                /\ UNCHANGED scores
           ELSE /\ scores' = Append(scores, row)
                /\ handlers' = [handlers EXCEPT ![s].pc = "update", ![s].newScore = row]
                /\ UNCHANGED storeFailed
    /\ UNCHANGED <<dbReady, users, userRequests, scoreRequests, accepted>>

\* const newTotalScore = user.total_score + score       server.js 764
SqlNewTotalScore(user, score) == user.total_score + score

\* callback of the UPDATE                               server.js 763-791
SqlScoresUpdate(s, fail) ==
    /\ handlers[s].op = "scores"
    /\ handlers[s].pc = "update"
    /\ LET body == handlers[s].body
           newScore == handlers[s].newScore
           newTotalScore == SqlNewTotalScore(handlers[s].user, body.score.v)
           data == [scoreId |-> newScore.id,
                    score |-> newScore.score,
                    maxScore |-> newScore.max_score,
                    percentage |-> Round(newScore.percentage[1], newScore.percentage[2]),
                    difficulty |-> newScore.difficulty,
                    newTotalScore |-> newTotalScore,
                    eligibleForReward |->
                        newScore.percentage[1] >= RewardThreshold * newScore.percentage[2]]
       IN  IF fail
           THEN /\ Send(s, SqlError(500, "Score saved but failed to update total"))
                /\ storeFailed' = TRUE
                /\ UNCHANGED <<users, accepted>>
           ELSE /\ users' = SqlUpdateTotalScore(toLowerCase(body.walletAddress),
                                                 newTotalScore)
                /\ Send(s, Response(201, "Score submitted successfully", data))
                /\ accepted' = accepted \cup
                       {[scoreId |-> data.scoreId, score |-> data.score]}
                /\ UNCHANGED storeFailed
    /\ UNCHANGED <<dbReady, scores, userRequests, scoreRequests>>

NextSqlite ==
    \/ \E s \in Slots : \E body \in SqlUsersBodies : SqlUsersReceive(s, body)
    \/ \E s \in Slots : \E fail \in BOOLEAN : SqlUsersGet(s, fail)
    \/ \E s \in Slots : \E fail \in BOOLEAN : SqlUsersUpdate(s, fail)
    \/ \E s \in Slots : \E fail \in BOOLEAN : SqlUsersInsert(s, fail)
    \/ \E s \in Slots : \E fail \in BOOLEAN : SqlUsersGetAgain(s, fail)
    \/ \E s \in Slots : \E body \in SqlScoresBodies : SqlScoresReceive(s, body)
    \/ \E s \in Slots : \E fail \in BOOLEAN : SqlScoresGet(s, fail)
    \/ \E s \in Slots : \E fail \in BOOLEAN : SqlScoresInsert(s, fail)
    \/ \E s \in Slots : \E fail \in BOOLEAN : SqlScoresUpdate(s, fail)

SpecSqlite == Init /\ [][NextSqlite]_vars

(***************************************************************************)
(* Claims.  An identifier is taken as the specification takes it: two      *)
(* identifiers are the same when they are equal after lowercasing.         *)
(***************************************************************************)
RECURSIVE SumOfAccepted(_)
SumOfAccepted(S) ==
    IF S = {} THEN 0
    ELSE LET a == CHOOSE x \in S : TRUE IN a.score + SumOfAccepted(S \ {a})

RECURSIVE SumOfScores(_)
SumOfScores(docs) ==
    IF docs = <<>> THEN 0 ELSE Head(docs).score + SumOfScores(Tail(docs))

\* the 201 responses whose ledger entry carries the identifier
AcceptedOf(walletAddress) ==
    {a \in accepted : scores[a.scoreId].walletAddress = walletAddress}

NoSubmissionInFlight ==
    \A s \in Slots : handlers[s].op = "scores" => handlers[s].pc = "idle"

\* C1: once every submission has been answered and no store operation has
\* failed, each participant's total score is the sum of the raw scores of the
\* participant's successful submissions, and the attempt count that listAttempts
\* reports is the number of those submissions.
C1_TotalIsSumOfSubmissions ==
    (NoSubmissionInFlight /\ ~storeFailed) =>
        \A i \in DOMAIN users :
            /\ users[i].totalScore = SumOfAccepted(AcceptedOf(users[i].walletAddress))
            /\ countDocuments(users[i].walletAddress)
                   = Cardinality(AcceptedOf(users[i].walletAddress))

C1_Witness ==
    /\ NoSubmissionInFlight
    /\ ~storeFailed
    /\ \E i \in DOMAIN users :
          /\ Cardinality(AcceptedOf(users[i].walletAddress)) = 2
          /\ users[i].totalScore = 3

\* the key under which the ledger holds a submission
KeyOf(body) == <<toLowerCase(body.walletAddress), body.quizId>>

HasEntry(key) ==
    \E i \in DOMAIN scores : <<scores[i].walletAddress, scores[i].quizId>> = key

AlreadyAccepted(key) ==
    \E a \in accepted :
        <<scores[a.scoreId].walletAddress, scores[a.scoreId].quizId>> = key

\* the handler of slot s takes a step
Steps(s) == handlers'[s] # handlers[s]

\* the handler of slot s answers in this step, without any write to the store
AnswersWithoutWrite(s) ==
    /\ handlers'[s].pc = "idle"
    /\ scores' = scores
    /\ users' = users
    /\ accepted' = accepted

Racing(s, r) ==
    /\ s # r
    /\ handlers[s].op = "scores"
    /\ handlers[r].op = "scores"
    /\ handlers[s].pc \in {"createScore", "updateUserTotalScore"}
    /\ handlers[r].pc \in {"createScore", "updateUserTotalScore"}
    /\ KeyOf(handlers[s].body) = KeyOf(handlers[r].body)

RECURSIVE PendingSum(_, _)
PendingSum(key, S) ==
    IF S = {} THEN 0
    ELSE LET s == CHOOSE x \in S : TRUE
         IN  (IF /\ handlers[s].op = "scores"
                 /\ handlers[s].pc = "updateUserTotalScore"
                 /\ toLowerCase(handlers[s].body.walletAddress) = key
              THEN handlers[s].body.score.v ELSE 0) + PendingSum(key, S \ {s})

\* C5: in every state of every interleaving in which no store operation has
\* failed, a participant's total score plus the raw scores of the submissions
\* that are recorded and not yet accrued is the sum of the participant's ledger
\* entries: no accrual overwrites another, so two concurrent submissions for
\* different quizzes end with the prior total plus both raw scores.
C5_NoLostUpdate ==
    ~storeFailed =>
        \A i \in DOMAIN users :
            users[i].totalScore + PendingSum(users[i].walletAddress, Slots)
                = SumOfScores(ScoresOf(users[i].walletAddress))

\* the submission recorded first is still waiting for its accrual when the one
\* recorded second, for another quiz of the same participant, has been accrued
C5_Witness ==
    /\ ~storeFailed
    /\ Len(scores) = 2
    /\ scores[1].walletAddress = scores[2].walletAddress
    /\ \E a \in accepted : a.scoreId = 2
    /\ \E s \in Slots :
          /\ handlers[s].op = "scores"
          /\ handlers[s].pc = "updateUserTotalScore"
          /\ handlers[s].newScore._id = 1

NoSubmissionBeforeAccrual ==
    \A s \in Slots :
        handlers[s].op = "scores" => handlers[s].pc # "updateUserTotalScore"

\* C7: when no submission is between its ledger write and its accrual and no
\* store operation has failed, each participant's total score is the sum of
\* the raw scores of the ledger entries that carry the participant's identifier.
C7_TotalIsLedgerSum ==
    (NoSubmissionBeforeAccrual /\ ~storeFailed) =>
        \A i \in DOMAIN users :
            users[i].totalScore = SumOfScores(ScoresOf(users[i].walletAddress))

C7_Witness ==
    /\ NoSubmissionBeforeAccrual
    /\ ~storeFailed
    /\ Len(users) = 2
    /\ \A i \in DOMAIN users :
          /\ users[i].totalScore > 0
          /\ users[i].totalScore = SumOfScores(ScoresOf(users[i].walletAddress))

\* the 201 responses of the SQLite revision whose ledger row carries the identifier
SqlAcceptedOf(wallet_address) ==
    {a \in accepted : scores[a.scoreId].wallet_address = wallet_address}

\* C6: in the SQLite wallet revision, once every submission has been answered
\* and no store operation has failed, each participant's total score is the sum
\* of the raw scores of the participant's accepted submissions, whatever the
\* order in which the callbacks of concurrent submissions ran.
C6_SqliteNoLostUpdate ==
    (NoSubmissionInFlight /\ ~storeFailed) =>
        \A i \in DOMAIN users :
            users[i].total_score = SumOfAccepted(SqlAcceptedOf(users[i].wallet_address))

\* a submission the specification calls invalid: a missing field, a score that
\* is no number or lies outside [0, maxScore], a difficulty outside the set
InvalidSubmission(body) ==
    \/ Undefined \in {body.walletAddress, body.quizId, body.score, body.difficulty}
    \/ body.score.t # "number"
    \/ body.score.v < 0
    \/ body.score.v > (IF body.maxScore = Undefined THEN DefaultMaxScore
                       ELSE body.maxScore.v)
    \/ body.difficulty.body \notin ValidDifficulties

Registered(walletAddress) ==
    \E i \in DOMAIN users : users[i].walletAddress = walletAddress

Participants == {users[i].walletAddress : i \in DOMAIN users}

\* C9: a submission whose identifier (lowercased) is no registered participant's
\* identifier is answered 404 (500 only when the store fails) without any write,
\* and no step of a submission changes the set of participants.
C9_UnknownParticipantRejected ==
    [][/\ \A s \in Slots :
             (/\ handlers[s].op = "scores"
              /\ handlers[s].pc = "getUserByWallet"
              /\ ~Registered(toLowerCase(handlers[s].body.walletAddress))
              /\ Steps(s))
             => /\ AnswersWithoutWrite(s)
                /\ handlers'[s].resp.status \in {404, 500}
                /\ ~storeFailed' => handlers'[s].resp.status = 404
       /\ \A s \in Slots :
             (handlers[s].op = "scores" /\ handlers[s].pc # "idle" /\ Steps(s))
             => Participants' = Participants /\ Len(users') = Len(users)]_vars

\* C10: when the accrual of a recorded submission fails, the ledger entry stays,
\* no total changes, the handler ends without another attempt, and its response
\* differs from the response an ordinary store error is answered with.
C10_PartialFailureReportedDistinctly ==
    [][\A s \in Slots :
          (/\ handlers[s].op = "scores"
           /\ handlers[s].pc = "updateUserTotalScore"
           /\ Steps(s)
           /\ handlers'[s].resp.status # 201)
          => /\ scores' = scores
             /\ users' = users
             /\ handlers'[s].pc = "idle"
             /\ handlers'[s].resp # InternalServerError]_vars

\* a step changes some participant's total score
TotalChanges ==
    \E i \in DOMAIN users : users'[i].totalScore # users[i].totalScore

\* the step adds scoreToAdd to the total of exactly one participant
AccruesOnce(scoreToAdd) ==
    /\ Len(users') = Len(users)
    /\ \E i \in DOMAIN users :
          /\ users'[i].totalScore = users[i].totalScore + scoreToAdd
          /\ \A j \in DOMAIN users : j # i => users'[j] = users[j]

\* C11: a submission moves Received -> Validated -> Recorded -> Accrued ->
\* Completed or ends Rejected or Failed: the ledger is written only by the step
\* that records it, a total changes only in the accrual step of a submission
\* whose entry is in the ledger, that step ends the handler (the accrual happens
\* at most once), and a handler that ends before recording has written nothing.
C11_SubmissionPath ==
    [][/\ \A s \in Slots :
             (Steps(s) /\ handlers'[s].op = "scores") =>
                 LET from == handlers[s].pc
                     to == handlers'[s].pc
                     status == handlers'[s].resp.status
                 IN  CASE from = "idle" ->
                            /\ UNCHANGED <<users, scores>>
                            /\ to \in {"idle", "getUserByWallet"}
                            /\ to = "idle" => status \in {400, 503}
                       [] from = "getUserByWallet" ->
                            /\ UNCHANGED <<users, scores>>
                            /\ to \in {"idle", "createScore"}
                            /\ to = "idle" => status \in {404, 500}
                       [] from = "createScore" ->
                            /\ UNCHANGED users
                            /\ \/ /\ to = "updateUserTotalScore"
                                  /\ scores' = Append(scores, handlers'[s].newScore)
                               \/ /\ to = "idle"
                                  /\ UNCHANGED scores
                                  /\ status \in {409, 500}
                       [] from = "updateUserTotalScore" ->
                            /\ UNCHANGED scores
                            /\ to = "idle"
                            /\ \E i \in DOMAIN scores : scores[i] = handlers[s].newScore
                            /\ \/ status = 201 /\ AccruesOnce(handlers[s].newScore.score)
                               \/ status = 500 /\ UNCHANGED users
                       [] OTHER -> FALSE
       /\ TotalChanges =>
             \E s \in Slots :
                 /\ handlers[s].op = "scores"
                 /\ handlers[s].pc = "updateUserTotalScore"
                 /\ Steps(s)
       /\ scores' # scores =>
             \E s \in Slots :
                 /\ handlers[s].op = "scores"
                 /\ handlers[s].pc = "createScore"
                 /\ Steps(s)]_vars

\* one submission completed and another failed between record and accrual
C11_Witness ==
    /\ Len(scores) = 2
    /\ Len(users) = 1
    /\ users[1].totalScore \in {scores[1].score, scores[2].score}
    /\ \E s, r \in Slots :
          /\ handlers[s].op = "scores" /\ handlers[s].pc = "idle"
          /\ handlers[r].op = "scores" /\ handlers[r].pc = "idle"
          /\ handlers[s].resp.status = 201
          /\ handlers[r].resp.status = 500

\* the identifier a profile request addresses, as the store keeps it
ProfileKey(body) == trim(toLowerCase(body.walletAddress))

\* C12: a registration whose identifier is registered when the handler answers
\* is answered 409 (already exists) and changes no participant, whether the
\* earlier registration was over before it began or ran concurrently with it;
\* only a failure of the store may make the answer another one.
C12_DuplicateRegistrationConflicts ==
    [][\A s \in Slots :
          (/\ handlers[s].op = "users"
           /\ handlers[s].pc # "idle"
           /\ Steps(s)
           /\ handlers'[s].pc = "idle"
           /\ Registered(ProfileKey(handlers[s].body))
           /\ ~storeFailed')
          => /\ handlers'[s].resp.status = 409
             /\ UNCHANGED users]_vars

ProfileBodies ==
    [walletAddress : {Plain("0xa"), Str("0xa", TRUE, 0)},
     username : {Plain("Alice"), Plain("Bobby")},
     profilePictureUrl : {Undefined, Plain("ipfs://pic")}]
    \cup
    {[walletAddress |-> Plain("0xa"), username |-> Str("Carol", FALSE, 1),
      profilePictureUrl |-> Str("ipfs://pic", FALSE, 1)],
     [walletAddress |-> Plain("0xa"), username |-> Str("Al", FALSE, 1),
      profilePictureUrl |-> Undefined],
     [walletAddress |-> Plain("0xa"), username |-> Plain("Al"),
      profilePictureUrl |-> Undefined],
     [walletAddress |-> Plain("0xa"), username |-> Plain("Alice"),
      profilePictureUrl |-> Plain("nope")],
     [walletAddress |-> Plain("zz"), username |-> Plain("Alice"),
      profilePictureUrl |-> Undefined]}

\* the submissions tried beside the profile requests
ProfileScoresBodies ==
    {[walletAddress |-> Plain("0xa"), quizId |-> Plain("q1"), score |-> Num(2),
      difficulty |-> Plain("medium"), maxScore |-> Undefined]}

\* req.params.walletAddress of the reads tried
GetUserParams == {Plain("0xa"), Str("0xa", TRUE, 0), Plain("0xb"), Plain("zz")}

RECURSIVE MaxOfScores(_)
\* $max: '$score' over a non-empty group
MaxOfScores(docs) ==
    IF Len(docs) = 1 THEN Head(docs).score
    ELSE LET m == MaxOfScores(Tail(docs))
         IN  IF Head(docs).score > m THEN Head(docs).score ELSE m

\* mutant: the aggregate's first group is returned without the zero default
getUserStatsNoDefault(walletAddress) ==
    LET docs == ScoresOf(toLowerCase(walletAddress))
    IN  IF docs = <<>>
        THEN Undefined
        ELSE [quizCount |-> Len(docs),
              averageScore |-> <<SumOfScores(docs), Len(docs)>>,
              bestScore |-> MaxOfScores(docs),
              totalScore |-> SumOfScores(docs)]

\* Database.getUserStats (database.js 192-216); averageScore is the fraction
\* <<sum, count>>
getUserStats(walletAddress) ==
    LET docs == ScoresOf(toLowerCase(walletAddress))
    IN  IF docs = <<>>
        THEN [quizCount |-> 0, averageScore |-> <<0, 1>>, bestScore |-> 0, totalScore |-> 0]
        ELSE [quizCount |-> Len(docs),
              averageScore |-> <<SumOfScores(docs), Len(docs)>>,
              bestScore |-> MaxOfScores(docs),
              totalScore |-> SumOfScores(docs)]

GetUserReceive(s, walletAddress) ==
    /\ Free(s)
    /\ LET h == [Idle EXCEPT !.op = "getUser", !.body = [walletAddress |-> walletAddress]]
           Reject(status, message) ==
               handlers' = [handlers EXCEPT ![s] =
                              [h EXCEPT !.body = Null,
                                        !.resp = Response(status, message, Null)]]
       IN  IF ~dbReady THEN Reject(503, "Database not ready")
           ELSE IF ~isValidWalletAddress(walletAddress)
                THEN Reject(400, "Invalid wallet address format")
           ELSE handlers' = [handlers EXCEPT ![s] = [h EXCEPT !.pc = "getUserByWallet"]]
    /\ UNCHANGED <<dbReady, users, scores, userRequests, scoreRequests, accepted,
                   storeFailed>>

\* await database.getUserByWallet(walletAddress)       server.js 225-232
GetUserGetUser(s, fail) ==
    /\ handlers[s].op = "getUser"
    /\ handlers[s].pc = "getUserByWallet"
    /\ LET user == getUserByWallet(handlers[s].body.walletAddress)
       IN  IF fail THEN Send(s, InternalServerError)
           ELSE IF user = Null THEN Send(s, Response(404, "User not found", Null))
           ELSE handlers' = [handlers EXCEPT ![s].pc = "getUserStats", ![s].user = user]
    /\ storeFailed' = (storeFailed \/ fail)
    /\ UNCHANGED <<dbReady, users, scores, userRequests, scoreRequests, accepted>>

\* await database.getUserStats(walletAddress)          server.js 234-255
GetUserGetStats(s, fail) ==
    /\ handlers[s].op = "getUser"
    /\ handlers[s].pc = "getUserStats"
    /\ LET user == handlers[s].user
           stats == getUserStats(handlers[s].body.walletAddress)
           data == [t |-> "object",
                    id |-> user._id,
                    walletAddress |-> user.walletAddress,
                    username |-> user.username,
                    profilePictureUrl |-> user.profilePictureUrl,
                    totalScore |-> user.totalScore,
                    level |-> user.level,
                    stats |-> [quizzesCompleted |-> stats.quizCount,
                               averageScore |-> Round(stats.averageScore[1],
                                                      stats.averageScore[2]),
                               bestScore |-> stats.bestScore]]
       IN  IF fail THEN Send(s, InternalServerError)
           \* reading a property of undefined throws into the catch block
           ELSE IF stats = Undefined THEN Send(s, InternalServerError)
           ELSE Send(s, Response(200, "", data))
    /\ storeFailed' = (storeFailed \/ fail)
    /\ UNCHANGED <<dbReady, users, scores, userRequests, scoreRequests, accepted>>

NextProfile ==
    \/ Connect
    \/ \E s \in Slots : \E body \in ProfileBodies : UsersReceive(s, body)
    \/ \E s \in Slots : \E fail \in BOOLEAN : UsersGetUser(s, fail)
    \/ \E s \in Slots : \E fail \in BOOLEAN : UsersUpdateUser(s, fail)
    \/ \E s \in Slots : \E fail \in BOOLEAN : UsersCreateUser(s, fail)
    \/ \E s \in Slots : \E body \in ProfileScoresBodies : ScoresReceive(s, body)
    \/ \E s \in Slots : \E fail \in BOOLEAN : ScoresGetUser(s, fail)
    \/ \E s \in Slots : \E fail \in BOOLEAN : ScoresCreateScore(s, fail)
    \/ \E s \in Slots : \E fail \in BOOLEAN : ScoresUpdateTotal(s, fail)
    \/ \E s \in Slots : \E walletAddress \in GetUserParams : GetUserReceive(s, walletAddress)
    \/ \E s \in Slots : \E fail \in BOOLEAN : GetUserGetUser(s, fail)
    \/ \E s \in Slots : \E fail \in BOOLEAN : GetUserGetStats(s, fail)

SpecProfile == Init /\ [][NextProfile]_vars

\* the value createUser keeps for a supplied name or image reference: the
\* value itself when exact, the value without its surrounding blanks otherwise
Kept(value, exact) ==
    IF Falsy(value) THEN Null ELSE IF exact THEN value ELSE trim(value)

\* a registration answered 201 has inserted one record with total score 0, the
\* lowercased identifier and the supplied name and image reference
CreateStoresSupplied(exact) ==
    \A s \in Slots :
        (/\ handlers[s].op = "users"
         /\ handlers[s].pc = "createUser"
         /\ Steps(s)
         /\ handlers'[s].resp.status = 201)
        => LET body == handlers[s].body
               record == users'[Len(users')]
           IN  /\ users' = Append(users, record)
               /\ record.walletAddress = toLowerCase(body.walletAddress)
               /\ record.totalScore = 0
               /\ record.username = Kept(body.username, exact)
               /\ record.profilePictureUrl = Kept(body.profilePictureUrl, exact)
               /\ handlers'[s].resp.data = record

\* a read finds the record of its identifier in any case of its letters,
\* answers 404 when there is none, and returns the fields of the record found
GetReturnsStored ==
    /\ \A s \in Slots :
          (/\ handlers[s].op = "getUser"
           /\ handlers[s].pc = "getUserByWallet"
           /\ Steps(s)
           /\ ~storeFailed')
          => LET key == toLowerCase(handlers[s].body.walletAddress)
             IN  IF Registered(key)
                 THEN /\ handlers'[s].pc = "getUserStats"
                      /\ handlers'[s].user = FindUser(key)
                 ELSE /\ handlers'[s].pc = "idle"
                      /\ handlers'[s].resp.status = 404
    /\ \A s \in Slots :
          (/\ handlers[s].op = "getUser"
           /\ handlers[s].pc = "getUserStats"
           /\ Steps(s)
           /\ handlers'[s].resp.status = 200)
          => LET user == handlers[s].user
                 data == handlers'[s].resp.data
             IN  /\ data.walletAddress = user.walletAddress
                 /\ data.username = user.username
                 /\ data.profilePictureUrl = user.profilePictureUrl
                 /\ data.totalScore = user.totalScore

\* C14 as stated: a registration followed by a read returns total score 0 and
\* exactly the supplied display name and image reference.
C14_CreateThenGetExact ==
    [][CreateStoresSupplied(TRUE) /\ GetReturnsStored]_vars

\* C14 amended: a registration followed by a read returns total score 0 and the
\* supplied display name and image reference without their surrounding blanks.
C14_CreateThenGetTrimmed ==
    [][CreateStoresSupplied(FALSE) /\ GetReturnsStored]_vars

\* a read has returned the record of the registration sent with blanks around
\* its name and image reference
C14_Witness ==
    \E s \in Slots :
        /\ handlers[s].op = "getUser"
        /\ handlers[s].pc = "idle"
        /\ handlers[s].resp.status = 200
        /\ handlers[s].resp.data.totalScore = 0
        /\ handlers[s].resp.data.username = Plain("Carol")
        /\ handlers[s].resp.data.profilePictureUrl = Plain("ipfs://pic")

\* a profile request with a malformed identifier, a display name whose length
\* is outside [3, 30] or an invalid image reference
InvalidProfile(body) ==
    \/ Falsy(body.walletAddress)
    \/ Falsy(body.username)
    \/ ~isValidWalletAddress(body.walletAddress)
    \/ length(body.username) < MinUsernameLength
    \/ length(body.username) > MaxUsernameLength
    \/ ~Falsy(body.profilePictureUrl) /\ ~isValidIPFSUrl(body.profilePictureUrl)

\* C15: with the store ready, a profile request or profile read that fails
\* validation is answered 400 and changes nothing, and a profile operation is
\* answered 500 only by a step in which the store failed, again without any
\* participant created or changed.
C15_ValidationIsClientError ==
    [][/\ \A s \in Slots : \A body \in ProfileBodies :
             (dbReady /\ InvalidProfile(body) /\ UsersReceive(s, body)) =>
                 /\ AnswersWithoutWrite(s)
                 /\ handlers'[s].resp.status = 400
       /\ \A s \in Slots : \A walletAddress \in GetUserParams :
             (dbReady /\ ~isValidWalletAddress(walletAddress)
              /\ GetUserReceive(s, walletAddress)) =>
                 /\ AnswersWithoutWrite(s)
                 /\ handlers'[s].resp.status = 400
       /\ \A s \in Slots :
             (/\ handlers'[s].op \in {"users", "getUser"}
              /\ Steps(s)
              /\ handlers'[s].pc = "idle"
              /\ handlers'[s].resp.status = 500)
             => /\ UNCHANGED users
                /\ ~storeFailed => storeFailed']_vars

(***************************************************************************)
(* Database.updateUser on its own (database.js 155-190), called with every *)
(* argument of a bounded set on every collection of a bounded set.         *)
(***************************************************************************)
\* a stored participant, with the creation time createUser gives it
UserDoc(id, walletAddress, username, profilePictureUrl, totalScore) ==
    [t |-> "object",
     _id |-> id,
     walletAddress |-> walletAddress,
     username |-> username,
     profilePictureUrl |-> profilePictureUrl,
     totalScore |-> totalScore,
     level |-> "beginner",
     createdAt |-> id]

StoredNames == {Plain("Alice"), Plain("Bobby")}
StoredImages == {Null, Plain("ipfs://pic")}
StoredTotals == {0, 2}

\* the collections updateUser is called on: none, one or two participants
StoredUsers ==
    {<<>>}
    \cup {<<UserDoc(1, Plain("0xa"), u, p, n)>> :
            u \in StoredNames, p \in StoredImages, n \in StoredTotals}
    \cup {<<UserDoc(1, Plain("0xb"), u, p, n), UserDoc(2, Plain("0xa"), v, q, m)>> :
            u \in {Plain("Bobby")}, p \in StoredImages, n \in StoredTotals,
            v \in StoredNames, q \in StoredImages, m \in StoredTotals}

\* the ledger that goes with a collection: one entry per non-zero total
LedgerOf(docs) ==
    LET scored == SelectSeq(docs, LAMBDA doc : doc.totalScore > 0)
    IN  [i \in DOMAIN scored |->
            [t |-> "object",
             _id |-> i,
             walletAddress |-> scored[i].walletAddress,
             quizId |-> Plain("q1"),
             score |-> scored[i].totalScore,
             difficulty |-> Plain("medium"),
             maxScore |-> DefaultMaxScore,
             percentage |-> <<100 * scored[i].totalScore, DefaultMaxScore>>]]

UpdateUserWallets == {Plain("0xa"), Str("0xa", TRUE, 0), Plain("0xc")}

UpdateUserData ==
    [username : {Undefined, Str("Carol", FALSE, 1), Plain("Al")},
     profilePictureUrl : {Undefined, Plain(""), Str("ipfs://new", FALSE, 1)}]

InitUpdateUser ==
    /\ dbReady = TRUE
    /\ users \in StoredUsers
    /\ scores = LedgerOf(users)
    /\ handlers = [s \in Slots |-> Idle]
    /\ userRequests = 0
    /\ scoreRequests = 0
    /\ accepted = {}
    /\ storeFailed = FALSE

\* database.updateUser(walletAddress, updateData); the call and what it
\* returned (null when it threw or matched nothing) are kept in slot 1
UpdateUserCall(walletAddress, updateData, fail) ==
    /\ LET key == trim(toLowerCase(walletAddress))
           updatedUser == IF FindUser(key) = Null THEN Null
                          ELSE UpdateFields(FindUser(key), updateData)
           error == updateUserError(updateData, fail)
           call == [Idle EXCEPT !.op = "updateUser",
                                !.body = [walletAddress |-> walletAddress,
                                          updateData |-> updateData,
                                          error |-> error]]
       IN  IF error # ""
           THEN /\ handlers' = [handlers EXCEPT ![1] = call]
                /\ storeFailed' = (storeFailed \/ error = "DATABASE_UPDATE_ERROR")
                /\ UNCHANGED users
           ELSE /\ users' = UsersAfter(key, updatedUser)
                /\ handlers' = [handlers EXCEPT ![1] = [call EXCEPT !.user = updatedUser]]
                /\ UNCHANGED storeFailed
    /\ UNCHANGED <<dbReady, scores, userRequests, scoreRequests, accepted>>

NextUpdateUser ==
    \E walletAddress \in UpdateUserWallets : \E updateData \in UpdateUserData :
        \E fail \in BOOLEAN : UpdateUserCall(walletAddress, updateData, fail)

SpecUpdateUser == InitUpdateUser /\ [][NextUpdateUser]_vars

\* C16: a call of updateUser neither adds nor removes a participant, leaves
\* every participant but the addressed one as it is, leaves the identifier,
\* total score, level, creation time and id of the addressed one as they are,
\* leaves a name or image reference that was not supplied as it is, and sets a
\* supplied one to the supplied value without its surrounding blanks.
C16_UpdateChangesNameAndImageOnly ==
    [][LET call == handlers'[1].body
           key == toLowerCase(call.walletAddress)
           updateData == call.updateData
       IN  /\ Len(users') = Len(users)
           /\ \A i \in DOMAIN users :
                 /\ users'[i].walletAddress = users[i].walletAddress
                 /\ users'[i].totalScore = users[i].totalScore
                 /\ users'[i].level = users[i].level
                 /\ users'[i].createdAt = users[i].createdAt
                 /\ users'[i]._id = users[i]._id
                 /\ users[i].walletAddress # key => users'[i] = users[i]
                 /\ call.error # "" => users'[i] = users[i]
                 /\ updateData.username = Undefined =>
                        users'[i].username = users[i].username
                 /\ updateData.profilePictureUrl = Undefined =>
                        users'[i].profilePictureUrl = users[i].profilePictureUrl
                 /\ (users[i].walletAddress = key /\ call.error = "") =>
                        /\ updateData.username # Undefined =>
                               users'[i].username = trim(updateData.username)
                        /\ updateData.profilePictureUrl # Undefined =>
                               users'[i].profilePictureUrl =
                                   Kept(updateData.profilePictureUrl, FALSE)
           /\ scores' = scores]_vars

\* a participant with a non-zero total was renamed and kept its image reference
C16_Witness ==
    /\ handlers[1].op = "updateUser"
    /\ handlers[1].body.updateData.profilePictureUrl = Undefined
    /\ handlers[1].user # Null
    /\ handlers[1].user.username = Plain("Carol")
    /\ handlers[1].user.profilePictureUrl = Plain("ipfs://pic")
    /\ handlers[1].user.totalScore = 2
    /\ \E i \in DOMAIN users : users[i] = handlers[1].user

(***************************************************************************)
(* Submissions around the reward threshold (MongoDB revision).             *)
(***************************************************************************)
RewardUsersBodies ==
    {[walletAddress |-> Plain("0xa"), username |-> u, profilePictureUrl |-> Undefined] :
        u \in {Plain("Alice"), Plain("Bobby")}}

\* score and maxScore just below, at and above 70 percent, with the default
\* maximum and with a supplied one, and 0 of 0
RewardMarks ==
    {<<Num(13), Undefined>>, <<Num(14), Undefined>>, <<Num(20), Undefined>>,
     <<Num(6), Num(10)>>, <<Num(7), Num(10)>>, <<Num(2), Num(3)>>,
     <<Num(3), Num(3)>>, <<Num(0), Num(0)>>}

RewardBodies ==
    {[walletAddress |-> Plain("0xa"), quizId |-> q, score |-> m[1],
      difficulty |-> d, maxScore |-> m[2]] :
        q \in {Plain("q1")}, m \in RewardMarks,
        d \in {Plain("easy"), Str("advanced", TRUE, 0)}}

NextReward ==
    \/ Connect
    \/ \E s \in Slots : \E body \in RewardUsersBodies : UsersReceive(s, body)
    \/ \E s \in Slots : \E fail \in BOOLEAN : UsersGetUser(s, fail)
    \/ \E s \in Slots : \E fail \in BOOLEAN : UsersUpdateUser(s, fail)
    \/ \E s \in Slots : \E fail \in BOOLEAN : UsersCreateUser(s, fail)
    \/ \E s \in Slots : \E body \in RewardBodies : ScoresReceive(s, body)
    \/ \E s \in Slots : \E fail \in BOOLEAN : ScoresGetUser(s, fail)
    \/ \E s \in Slots : \E fail \in BOOLEAN : ScoresCreateScore(s, fail)
    \/ \E s \in Slots : \E fail \in BOOLEAN : ScoresUpdateTotal(s, fail)

SpecReward == Init /\ [][NextReward]_vars

\* C17: in every 201 response to a submission, eligibleForReward is true
\* exactly when 100 x score >= 70 x maxScore, for the score and the maximum the
\* submission was recorded with, whatever its difficulty.
C17_EligibleFromSeventyPercent ==
    \A s \in Slots :
        (/\ handlers[s].op = "scores"
         /\ handlers[s].pc = "idle"
         /\ handlers[s].resp.status = 201)
        => LET data == handlers[s].resp.data
           IN  /\ data.maxScore > 0
               /\ data.eligibleForReward = (100 * data.score >= 70 * data.maxScore)

\* a submission of exactly 70 percent of a supplied maximum was found eligible
C17_Witness ==
    \E s \in Slots :
        /\ handlers[s].op = "scores"
        /\ handlers[s].pc = "idle"
        /\ handlers[s].resp.status = 201
        /\ handlers[s].resp.data.eligibleForReward
        /\ handlers[s].resp.data.maxScore # DefaultMaxScore
        /\ 100 * handlers[s].resp.data.score = 70 * handlers[s].resp.data.maxScore

(***************************************************************************)
(* GET /api/leaderboard of the MongoDB revision (server.js 413-436,        *)
(* database.js 264-313), on a server started over an existing database.    *)
(***************************************************************************)
DefaultLeaderboardLimit == 100
MaxLeaderboardLimit == 500

NaN == [t |-> "NaN"]

\* a query string, character by character
Query(chars) == [t |-> "string", chars |-> chars]

Digits == <<"0", "1", "2", "3", "4", "5", "6", "7", "8", "9">>

IsDigit(c) == \E d \in DOMAIN Digits : Digits[d] = c

DigitOf(c) == (CHOOSE d \in DOMAIN Digits : Digits[d] = c) - 1

RECURSIVE ParseDigits(_, _)
ParseDigits(chars, n) ==
    IF chars = <<>> \/ ~IsDigit(Head(chars)) THEN n
    ELSE ParseDigits(Tail(chars), 10 * n + DigitOf(Head(chars)))

\* parseInt of JavaScript: an optional sign, then the leading digits; NaN when
\* there is none or the value is undefined
parseInt(q) ==
    IF q = Undefined THEN NaN
    ELSE LET signed == q.chars # <<>> /\ Head(q.chars) \in {"-", "+"}
             digits == IF signed THEN Tail(q.chars) ELSE q.chars
         IN  IF digits = <<>> \/ ~IsDigit(Head(digits)) THEN NaN
             ELSE IF Head(q.chars) = "-" THEN Num(0 - ParseDigits(digits, 0))
             ELSE Num(ParseDigits(digits, 0))

\* x || d for a number or NaN x
OrElse(x, d) == IF x = NaN \/ Falsy(x) THEN d ELSE x.v

\* Math.min(parseInt(req.query.limit) || 100, 500)      server.js 415
LeaderboardLimit(q) ==
    Min({OrElse(parseInt(q), DefaultLeaderboardLimit), MaxLeaderboardLimit})

\* req.query.limit of the requests tried
LimitQueries ==
    {Undefined, Query(<<"2">>), Query(<<"1", "0">>), Query(<<"0">>),
     Query(<<"-", "5">>), Query(<<"a", "b", "c">>), Query(<<"1", "0", "0", "0">>)}

\* mutant: the pipeline has no $match stage
EligibleOrNot == DOMAIN users

\* { $match: { totalScore: { $gt: 0 } } }
Eligible == {i \in DOMAIN users : users[i].totalScore > 0}

\* the orders $sort: { totalScore: -1 } can produce: descending totals, equal
\* totals in any order
SortedOrders ==
    {order \in [1..Cardinality(Eligible) -> Eligible] :
        /\ \A a, b \in DOMAIN order : a # b => order[a] # order[b]
        /\ \A a, b \in DOMAIN order :
              a < b => users[order[a]].totalScore >= users[order[b]].totalScore}

\* Database.getLeaderboard(limit) for one order of the sort, limit > 0
getLeaderboard(limit, order) ==
    [index \in 1..Min({limit, Len(order)}) |->
        LET user == users[order[index]]
        IN  [rank |-> index,
             walletAddress |-> user.walletAddress,
             username |-> user.username,
             profilePictureUrl |-> user.profilePictureUrl,
             score |-> user.totalScore,
             level |-> user.level,
             quizCount |-> Len(ScoresOf(user.walletAddress))]]

LeaderboardReceive(s, q) ==
    /\ Free(s)
    /\ LET h == [Idle EXCEPT !.op = "leaderboard"]
       IN  IF ~dbReady
           THEN handlers' = [handlers EXCEPT ![s] =
                    [h EXCEPT !.resp = Response(503, "Database not ready", Null)]]
           ELSE handlers' = [handlers EXCEPT ![s] =
                    [h EXCEPT !.pc = "getLeaderboard",
                              !.body = [limit |-> LeaderboardLimit(q)]]]
    /\ UNCHANGED <<dbReady, users, scores, userRequests, scoreRequests, accepted,
                   storeFailed>>

\* await database.getLeaderboard(limit); the store refuses a $limit that is
\* not positive                                         server.js 417-435
LeaderboardGet(s, fail, order) ==
    /\ handlers[s].op = "leaderboard"
    /\ handlers[s].pc = "getLeaderboard"
    /\ order \in SortedOrders
    /\ LET limit == handlers[s].body.limit
       IN  IF fail \/ limit <= 0
           THEN Send(s, InternalServerError)
           ELSE LET leaderboard == getLeaderboard(limit, order)
                IN  Send(s, Response(200, "",
                            [leaderboard |-> leaderboard,
                             totalPlayers |-> Len(leaderboard)]))
    /\ storeFailed' = (storeFailed \/ fail)
    /\ UNCHANGED <<dbReady, users, scores, userRequests, scoreRequests, accepted>>

BoardTotals == {0, 10, 18}

\* the participants of the databases the server is started over
BoardUser(id, totalScore) ==
    UserDoc(id,
            <<Plain("0xa"), Plain("0xb"), Plain("0xc")>>[id],
            <<Plain("Alice"), Plain("Bobby"), Plain("Carol")>>[id],
            Null, totalScore)

BoardUsers ==
    {<<>>}
    \cup {<<BoardUser(1, a)>> : a \in BoardTotals}
    \cup {<<BoardUser(1, a), BoardUser(2, b)>> : a \in BoardTotals, b \in BoardTotals}
    \cup {<<BoardUser(1, a), BoardUser(2, b), BoardUser(3, c)>> :
            a \in BoardTotals, b \in BoardTotals, c \in BoardTotals}

\* the submissions tried: q1 and q2 of the first participant
BoardScoresBodies ==
    {[walletAddress |-> Plain("0xa"), quizId |-> Plain("q1"), score |-> Num(18),
      difficulty |-> Plain("medium"), maxScore |-> Num(20)],
     [walletAddress |-> Plain("0xa"), quizId |-> Plain("q2"), score |-> Num(10),
      difficulty |-> Plain("medium"), maxScore |-> Num(20)]}

InitLeaderboard ==
    /\ dbReady = FALSE
    /\ users \in BoardUsers
    /\ scores = LedgerOf(users)
    /\ handlers = [s \in Slots |-> Idle]
    /\ userRequests = 0
    /\ scoreRequests = 0
    /\ accepted = {}
    /\ storeFailed = FALSE

NextLeaderboard ==
    \/ Connect
    \/ \E s \in Slots : \E body \in BoardScoresBodies : ScoresReceive(s, body)
    \/ \E s \in Slots : \E fail \in BOOLEAN : ScoresGetUser(s, fail)
    \/ \E s \in Slots : \E fail \in BOOLEAN : ScoresCreateScore(s, fail)
    \/ \E s \in Slots : \E fail \in BOOLEAN : ScoresUpdateTotal(s, fail)
    \/ \E s \in Slots : \E q \in LimitQueries : LeaderboardReceive(s, q)
    \/ \E s \in Slots : \E fail \in BOOLEAN : \E order \in SortedOrders :
          LeaderboardGet(s, fail, order)

SpecLeaderboard == InitLeaderboard /\ [][NextLeaderboard]_vars

\* the leaderboard a step answers with, <<>> when the step answers none
Answered(s) ==
    IF /\ handlers[s].op = "leaderboard"
       /\ handlers[s].pc = "getLeaderboard"
       /\ Steps(s)
       /\ handlers'[s].resp.status = 200
    THEN handlers'[s].resp.data.leaderboard
    ELSE <<>>

Positive == {i \in DOMAIN users : users[i].totalScore > 0}

\* C18: a leaderboard holds only participants with a total above 0, each once
\* and with its total, in descending order of the totals, ranked 1, 2, ..., and
\* for limit k it holds k of them, or all when there are fewer, none of the
\* participants left out having a higher total than one that is listed.
C18_LeaderboardRanksTopK ==
    [][\A s \in Slots :
          LET rows == Answered(s)
              listed == {i \in Positive :
                            \E j \in DOMAIN rows :
                                rows[j].walletAddress = users[i].walletAddress}
          IN  rows # <<>> =>
                /\ \A j \in DOMAIN rows :
                      /\ rows[j].rank = j
                      /\ rows[j].score > 0
                      /\ \E i \in Positive :
                            /\ users[i].walletAddress = rows[j].walletAddress
                            /\ users[i].totalScore = rows[j].score
                /\ \A a, b \in DOMAIN rows :
                      a < b => /\ rows[a].score >= rows[b].score
                               /\ rows[a].walletAddress # rows[b].walletAddress
                /\ Len(rows) = Min({handlers[s].body.limit, Cardinality(Positive)})
                /\ \A i \in Positive \ listed : \A j \in DOMAIN rows :
                      users[i].totalScore <= rows[j].score]_vars

\* a leaderboard of two was answered where three participants have a total
\* above 0, two of them the same one
C18_Witness ==
    /\ Cardinality(Positive) = 3
    /\ \E i, j \in Positive : i # j /\ users[i].totalScore = users[j].totalScore
    /\ \E s \in Slots :
          /\ handlers[s].op = "leaderboard"
          /\ handlers[s].pc = "idle"
          /\ handlers[s].resp.status = 200
          /\ Len(handlers[s].resp.data.leaderboard) = 2

\* C19: the limit a leaderboard request passes to getLeaderboard is at least 1
\* and at most 500, whatever the query value.
C19_LimitClamped ==
    \A s \in Slots :
        (handlers[s].op = "leaderboard" /\ handlers[s].pc = "getLeaderboard")
            => /\ handlers[s].body.limit >= 1
               /\ handlers[s].body.limit <= 500

\* C20: in every leaderboard row quizCount is the number of ledger entries of
\* the row's participant and score is the participant's total; and when the
\* only participant is 0xa with the entries q1 (18) and q2 (10) and total 28, a
\* leaderboard of limit 10 is the single row: rank 1, score 28, quizCount 2.
C20_RowCountsLedgerEntries ==
    [][\A s \in Slots :
          LET rows == Answered(s)
          IN  rows # <<>> =>
                /\ \A j \in DOMAIN rows :
                      /\ rows[j].quizCount =
                            Cardinality({i \in DOMAIN scores :
                                scores[i].walletAddress = rows[j].walletAddress})
                      /\ \E i \in DOMAIN users :
                            /\ users[i].walletAddress = rows[j].walletAddress
                            /\ users[i].totalScore = rows[j].score
                /\ (/\ Len(users) = 1
                    /\ users[1].walletAddress = Plain("0xa")
                    /\ users[1].totalScore = 28
                    /\ Len(scores) = 2
                    /\ handlers[s].body.limit = 10)
                   => /\ Len(rows) = 1
                      /\ rows[1].rank = 1
                      /\ rows[1].walletAddress = Plain("0xa")
                      /\ rows[1].username = Plain("Alice")
                      /\ rows[1].score = 28
                      /\ rows[1].quizCount = 2]_vars

\* Alice, registered and with q1 (18) recorded, had q2 (10) accepted and a
\* resubmission of q1 refused, and the leaderboard ranks her first with 28 and 2
C20_Witness ==
    /\ Len(users) = 1
    /\ scoreRequests = 2
    /\ accepted = {[scoreId |-> 2, score |-> 10]}
    /\ \E s, r \in Slots :
          /\ handlers[s].op = "leaderboard"
          /\ handlers[s].pc = "idle"
          /\ handlers[s].resp.status = 200
          /\ Len(handlers[s].resp.data.leaderboard) = 1
          /\ handlers[s].resp.data.leaderboard[1].rank = 1
          /\ handlers[s].resp.data.leaderboard[1].username = Plain("Alice")
          /\ handlers[s].resp.data.leaderboard[1].score = 28
          /\ handlers[s].resp.data.leaderboard[1].quizCount = 2
          /\ handlers[r].op = "scores"
          /\ handlers[r].pc = "idle"
          /\ handlers[r].resp.status = 409

\* ---------------------------------------------------------------------------
\* C21: the statistics of a participant without ledger entries

\* C21: when the store does not fail, reading the profile of a participant who
\* has no ledger entry answers 200 with quizzesCompleted 0, averageScore 0 and
\* bestScore 0
C21_EmptyStatsAreZero ==
    [][\A s \in Slots :
          (/\ Steps(s)
           /\ handlers[s].op = "getUser"
           /\ handlers[s].pc = "getUserStats"
           /\ ScoresOf(toLowerCase(handlers[s].body.walletAddress)) = <<>>
           /\ ~storeFailed')
          => /\ handlers'[s].resp.status = 200
             /\ handlers'[s].resp.data.stats =
                    [quizzesCompleted |-> 0, averageScore |-> 0, bestScore |-> 0]]_vars

C21_Witness ==
    \E s \in Slots :
        /\ handlers[s].op = "getUser"
        /\ handlers[s].pc = "idle"
        /\ handlers[s].resp.status = 200
        /\ handlers[s].resp.data.stats.quizzesCompleted = 0
        /\ handlers[s].resp.data.stats.averageScore = 0
        /\ handlers[s].resp.data.stats.bestScore = 0
        /\ ~storeFailed

(***************************************************************************)
(* GET /api/users/:walletAddress/history of the MongoDB revision           *)
(* (server.js 360-408) and Database.getUserScoreHistory (database.js       *)
(* 241-261).  The entries are kept in insertion order, which is the order  *)
(* of their createdAt.                                                     *)
(***************************************************************************)
DefaultHistoryLimit == 20
MaxHistoryLimit == 100

Max(S) == CHOOSE m \in S : \A n \in S : m >= n

\* Math.min(parseInt(req.query.limit) || 20, 100)       server.js 363
HistoryLimit(q) == Min({OrElse(parseInt(q), DefaultHistoryLimit), MaxHistoryLimit})

\* Math.max(parseInt(req.query.offset) || 0, 0)         server.js 364
HistoryOffset(q) == Max({OrElse(parseInt(q), 0), 0})

Reverse(seq) == [i \in 1..Len(seq) |-> seq[Len(seq) + 1 - i]]

\* mutant: the page is cut from the entries in creation order
FindScoresUnsorted(walletAddress, limit, offset) ==
    LET sorted == ScoresOf(toLowerCase(walletAddress))
        size == IF limit < 0 THEN 0 - limit ELSE limit
        last == IF size = 0 THEN Len(sorted) ELSE Min({Len(sorted), offset + size})
    IN  IF offset >= Len(sorted) THEN <<>> ELSE SubSeq(sorted, offset + 1, last)

\* find({ walletAddress }).sort({ createdAt: -1 }).skip(offset).limit(limit)
\* .toArray() (database.js 243-248): newest first; a limit of 0 is no limit and
\* a negative limit is its absolute value
FindScores(walletAddress, limit, offset) ==
    LET sorted == Reverse(ScoresOf(toLowerCase(walletAddress)))
        size == IF limit < 0 THEN 0 - limit ELSE limit
        last == IF size = 0 THEN Len(sorted) ELSE Min({Len(sorted), offset + size})
    IN  IF offset >= Len(sorted) THEN <<>> ELSE SubSeq(sorted, offset + 1, last)

\* the handler up to its first await                    server.js 360-373
HistoryReceive(s, walletAddress, limit, offset) ==
    /\ Free(s)
    /\ LET h == [Idle EXCEPT !.op = "history",
                             !.body = [walletAddress |-> walletAddress,
                                       limit |-> HistoryLimit(limit),
                                       offset |-> HistoryOffset(offset),
                                       scores |-> <<>>]]  \* not read yet
           Reject(status, message) ==
               handlers' = [handlers EXCEPT ![s] =
                              [h EXCEPT !.body = Null,
                                        !.resp = Response(status, message, Null)]]
       IN  IF ~dbReady THEN Reject(503, "Database not ready")
           ELSE IF ~isValidWalletAddress(walletAddress)
                THEN Reject(400, "Invalid wallet address format")
           ELSE handlers' = [handlers EXCEPT ![s] = [h EXCEPT !.pc = "getUserByWallet"]]
    /\ UNCHANGED <<dbReady, users, scores, userRequests, scoreRequests, accepted,
                   storeFailed>>

\* await database.getUserByWallet(walletAddress)       server.js 374-381
HistoryGetUser(s, fail) ==
    /\ handlers[s].op = "history"
    /\ handlers[s].pc = "getUserByWallet"
    /\ IF fail THEN Send(s, InternalServerError)
       ELSE IF getUserByWallet(handlers[s].body.walletAddress) = Null
            THEN Send(s, Response(404, "User not found", Null))
       ELSE Await(s, "find")
    /\ storeFailed' = (storeFailed \/ fail)
    /\ UNCHANGED <<dbReady, users, scores, userRequests, scoreRequests, accepted>>

\* the first await of getUserScoreHistory: the page     database.js 243-248
HistoryFind(s, fail) ==
    /\ handlers[s].op = "history"
    /\ handlers[s].pc = "find"
    /\ LET body == handlers[s].body
       IN  IF fail THEN Send(s, InternalServerError)
           ELSE handlers' = [handlers EXCEPT
                   ![s].pc = "countDocuments",
                   ![s].body.scores =
                       FindScores(body.walletAddress, body.limit, body.offset)]
    /\ storeFailed' = (storeFailed \/ fail)
    /\ UNCHANGED <<dbReady, users, scores, userRequests, scoreRequests, accepted>>

\* the second await of getUserScoreHistory, the count, and the answer
\* database.js 250-257, server.js 384-398
HistoryCount(s, fail) ==
    /\ handlers[s].op = "history"
    /\ handlers[s].pc = "countDocuments"
    /\ LET body == handlers[s].body
           total == countDocuments(body.walletAddress)
           historyData == [scores |-> body.scores,
                           total |-> total,
                           hasMore |-> total > body.offset + Len(body.scores)]
           data == [history |-> historyData.scores,
                    pagination |-> [total |-> historyData.total,
                                    limit |-> body.limit,
                                    offset |-> body.offset,
                                    hasMore |-> historyData.hasMore]]
       IN  IF fail THEN Send(s, InternalServerError)
           ELSE Send(s, Response(200, "", data))
    /\ storeFailed' = (storeFailed \/ fail)
    /\ UNCHANGED <<dbReady, users, scores, userRequests, scoreRequests, accepted>>

\* the ledger of the databases the server is started over: a prefix of these
\* accepted submissions, oldest first
HistoryLedger ==
    LET Entry(id, walletAddress, quizId, score) ==
            [t |-> "object",
             _id |-> id,
             walletAddress |-> Plain(walletAddress),
             quizId |-> Plain(quizId),
             score |-> score,
             difficulty |-> Plain("medium"),
             maxScore |-> DefaultMaxScore,
             percentage |-> <<100 * score, DefaultMaxScore>>]
    IN  <<Entry(1, "0xa", "q1", 2), Entry(2, "0xb", "q1", 1),
          Entry(3, "0xa", "q2", 1), Entry(4, "0xa", "q3", 2)>>

\* the two participants, with the totals of a ledger
HistoryUsers(ledger) ==
    LET TotalOf(walletAddress) ==
            SumOfScores(SelectSeq(ledger, LAMBDA doc : doc.walletAddress = walletAddress))
    IN  <<UserDoc(1, Plain("0xa"), Plain("Alice"), Null, TotalOf(Plain("0xa"))),
          UserDoc(2, Plain("0xb"), Plain("Bobby"), Null, TotalOf(Plain("0xb")))>>

\* the submission tried while the history is read
HistoryScoresBodies ==
    {[walletAddress |-> Plain("0xa"), quizId |-> Plain("q9"), score |-> Num(1),
      difficulty |-> Plain("medium"), maxScore |-> Num(20)]}

\* req.params.walletAddress and req.query of the reads tried
HistoryParams == {Plain("0xa"), Plain("0xc"), Plain("zz")}

HistoryQueries ==
    {[limit |-> Undefined, offset |-> Undefined],
     [limit |-> Query(<<"2">>), offset |-> Undefined],
     [limit |-> Query(<<"2">>), offset |-> Query(<<"2">>)],
     [limit |-> Query(<<"-", "5">>), offset |-> Undefined],
     [limit |-> Query(<<"0">>), offset |-> Query(<<"-", "1">>)],
     [limit |-> Query(<<"a", "b", "c">>), offset |-> Query(<<"a", "b", "c">>)],
     [limit |-> Query(<<"1", "0", "0", "0">>), offset |-> Undefined]}

InitHistory ==
    /\ dbReady = FALSE
    /\ \E n \in 0..Len(HistoryLedger) :
          /\ scores = SubSeq(HistoryLedger, 1, n)
          /\ users = HistoryUsers(SubSeq(HistoryLedger, 1, n))
    /\ handlers = [s \in Slots |-> Idle]
    /\ userRequests = 0
    /\ scoreRequests = 0
    /\ accepted = {}
    /\ storeFailed = FALSE

NextHistory ==
    \/ Connect
    \/ \E s \in Slots : \E body \in HistoryScoresBodies : ScoresReceive(s, body)
    \/ \E s \in Slots : \E fail \in BOOLEAN : ScoresGetUser(s, fail)
    \/ \E s \in Slots : \E fail \in BOOLEAN : ScoresCreateScore(s, fail)
    \/ \E s \in Slots : \E fail \in BOOLEAN : ScoresUpdateTotal(s, fail)
    \/ \E s \in Slots : \E walletAddress \in HistoryParams : \E query \in HistoryQueries :
          HistoryReceive(s, walletAddress, query.limit, query.offset)
    \/ \E s \in Slots : \E fail \in BOOLEAN : HistoryGetUser(s, fail)
    \/ \E s \in Slots : \E fail \in BOOLEAN : HistoryFind(s, fail)
    \/ \E s \in Slots : \E fail \in BOOLEAN : HistoryCount(s, fail)

SpecHistory == InitHistory /\ [][NextHistory]_vars

\* ---------------------------------------------------------------------------
\* C22, C23, C29: the history of a participant

\* C22: the limit a history read works with is at least 1 and at most the
\* maximum of 100, and its offset is at least 0, whatever the query holds
C22_HistoryLimitClamped ==
    \A s \in Slots :
        (handlers[s].op = "history" /\ handlers[s].body # Null)
        => /\ handlers[s].body.limit >= 1
           /\ handlers[s].body.limit <= MaxHistoryLimit
           /\ handlers[s].body.offset >= 0

\* the participant has entries older than the last entry of the page
EntriesBeyond(key, page) ==
    /\ page # <<>>
    /\ \E i \in DOMAIN scores :
          /\ scores[i].walletAddress = key
          /\ scores[i]._id < page[Len(page)]._id

\* C23: a history answer has hasMore = total > offset + number of entries
\* returned, and hasMore is true exactly when the participant has entries
\* beyond the returned page, also when a submission was recorded between the
\* read of the page and the read of the count
C23_HasMoreExact ==
    [][\A s \in Slots :
          (/\ Steps(s)
           /\ handlers[s].op = "history"
           /\ handlers[s].pc = "countDocuments"
           /\ handlers'[s].resp.status = 200)
          => LET data == handlers'[s].resp.data
                 key == toLowerCase(handlers[s].body.walletAddress)
             IN  /\ data.pagination.hasMore =
                       (data.pagination.total >
                           data.pagination.offset + Len(data.history))
                 /\ data.pagination.hasMore = EntriesBeyond(key, data.history)]_vars

MaxPageSize == 3

RECURSIVE Pages(_, _, _, _)
\* the pages read with a fixed limit at the offsets offset, offset + limit, ...,
\* one after the other
Pages(walletAddress, limit, offset, count) ==
    IF count = 0 THEN <<>>
    ELSE FindScores(walletAddress, limit, offset)
            \o Pages(walletAddress, limit, offset + limit, count - 1)

SqlInitialize ==
    /\ ~dbReady
    /\ dbReady' = TRUE
    /\ UNCHANGED <<users, scores, handlers, userRequests, scoreRequests,
                   accepted, storeFailed>>

StartUsersBodies ==
    {[walletAddress |-> Plain("0xa"), username |-> u, profilePicture |-> Undefined] :
        u \in {Plain("Alice"), Undefined}}

StartScoresBodies ==
    {[walletAddress |-> Plain("0xa"), quizId |-> Plain("q1"), score |-> sc,
      difficulty |-> Plain("medium"), maxScore |-> Undefined] :
        sc \in {Num(1), Undefined}}

NextSqliteStart ==
    \/ SqlInitialize
    \/ \E s \in Slots : \E body \in StartUsersBodies : SqlUsersReceive(s, body)
    \/ \E s \in Slots : \E fail \in BOOLEAN : (dbReady \/ fail) /\ SqlUsersGet(s, fail)
    \/ \E s \in Slots : \E fail \in BOOLEAN : (dbReady \/ fail) /\ SqlUsersUpdate(s, fail)
    \/ \E s \in Slots : \E fail \in BOOLEAN : (dbReady \/ fail) /\ SqlUsersInsert(s, fail)
    \/ \E s \in Slots : \E fail \in BOOLEAN : (dbReady \/ fail) /\ SqlUsersGetAgain(s, fail)
    \/ \E s \in Slots : \E body \in StartScoresBodies : SqlScoresReceive(s, body)
    \/ \E s \in Slots : \E fail \in BOOLEAN : (dbReady \/ fail) /\ SqlScoresGet(s, fail)
    \/ \E s \in Slots : \E fail \in BOOLEAN : (dbReady \/ fail) /\ SqlScoresInsert(s, fail)
    \/ \E s \in Slots : \E fail \in BOOLEAN : (dbReady \/ fail) /\ SqlScoresUpdate(s, fail)

SpecSqliteStart == Init /\ [][NextSqliteStart]_vars

\* ---------------------------------------------------------------------------
\* C24: requests before the store is ready

\* C24: a request received while the store is not ready is answered 503 at
\* once, so that no handler waits on a store operation before the store is
\* ready
C24_NotReadyAnswersUnavailable ==
    [][\A s \in Slots :
          (Steps(s) /\ ~dbReady /\ handlers[s].pc = "idle")
          => /\ handlers'[s].pc = "idle"
             /\ handlers'[s].resp.status = 503]_vars

(***************************************************************************)
(* The MongoDB revision with scores that are not whole numbers.  JSON      *)
(* numbers are doubles; the numbers of this specification are counted in   *)
(* halves, which doubles add and compare exactly: Halves(3) is 1.5 and     *)
(* Halves(40) is 20.  Every body carries its maxScore, so that no number   *)
(* of the code (the default 20) meets a number counted in halves, and the  *)
(* percentage is a ratio.                                                  *)
(***************************************************************************)
Halves(n) == Num(n)

\* a number counted in halves is a whole number
IsInteger(halves) == halves % 2 = 0

FractionUsersBodies ==
    {[walletAddress |-> Plain("0xa"), username |-> u, profilePictureUrl |-> Undefined] :
        u \in {Plain("Alice"), Plain("Alicia")}}

\* q1 with 1.5 of 20, q2 with 2 of 20, q3 with -1.5 of 20
FractionScoresBodies ==
    {[walletAddress |-> Plain("0xa"), quizId |-> Plain("q1"), score |-> Halves(3),
      difficulty |-> Plain("medium"), maxScore |-> Halves(40)],
     [walletAddress |-> Plain("0xa"), quizId |-> Plain("q2"), score |-> Halves(4),
      difficulty |-> Plain("medium"), maxScore |-> Halves(40)],
     [walletAddress |-> Plain("0xa"), quizId |-> Plain("q3"), score |-> Halves(0 - 3),
      difficulty |-> Plain("medium"), maxScore |-> Halves(40)]}

NextFraction ==
    \/ Connect
    \/ \E s \in Slots : \E body \in FractionUsersBodies : UsersReceive(s, body)
    \/ \E s \in Slots : \E fail \in BOOLEAN : UsersGetUser(s, fail)
    \/ \E s \in Slots : \E fail \in BOOLEAN : UsersUpdateUser(s, fail)
    \/ \E s \in Slots : \E fail \in BOOLEAN : UsersCreateUser(s, fail)
    \/ \E s \in Slots : \E body \in FractionScoresBodies : ScoresReceive(s, body)
    \/ \E s \in Slots : \E fail \in BOOLEAN : ScoresGetUser(s, fail)
    \/ \E s \in Slots : \E fail \in BOOLEAN : ScoresCreateScore(s, fail)
    \/ \E s \in Slots : \E fail \in BOOLEAN : ScoresUpdateTotal(s, fail)

SpecFraction == Init /\ [][NextFraction]_vars

\* ---------------------------------------------------------------------------
\* C25: the total of a participant

\* the step is the accrual of a submission
AccrualStep ==
    \E s \in Slots :
        /\ Steps(s)
        /\ handlers[s].op = "scores"
        /\ handlers[s].pc = "updateUserTotalScore"

\* the totals never decrease and change in an accrual step only
TotalsGrowByAccrual ==
    \A i \in DOMAIN users :
        /\ i \in DOMAIN users'
        /\ users'[i].totalScore >= users[i].totalScore
        /\ users'[i].totalScore # users[i].totalScore => AccrualStep

\* C25: every total is a non-negative integer after every step, no total ever
\* decreases, and a total changes in the accrual step of a submission only
C25_TotalIsMonotoneInteger ==
    [][/\ \A i \in DOMAIN users' :
             /\ users'[i].totalScore >= 0
             /\ IsInteger(users'[i].totalScore)
       /\ TotalsGrowByAccrual]_vars

\* C25 without the integrality: every total is non-negative after every step,
\* no total ever decreases, and a total changes in an accrual step only
C25_TotalIsMonotone ==
    [][/\ \A i \in DOMAIN users' : users'[i].totalScore >= 0
       /\ TotalsGrowByAccrual]_vars

\* ---------------------------------------------------------------------------
\* C26: the ledger is append-only and participants are permanent

\* C26: every step keeps every ledger entry in its place with all its fields
\* unchanged, and keeps every participant with its identifier
C26_LedgerAppendOnly ==
    [][/\ \A i \in DOMAIN scores :
             /\ i \in DOMAIN scores'
             /\ scores'[i] = scores[i]
       /\ \A i \in DOMAIN users :
             /\ i \in DOMAIN users'
             /\ users'[i]._id = users[i]._id
             /\ users'[i].walletAddress = users[i].walletAddress]_vars

\* a profile was updated and a total accrued while the ledger held an entry
C26_Witness ==
    /\ Len(scores) >= 1
    /\ \E i \in DOMAIN users : users[i].totalScore > 0
    /\ \E s \in Slots :
          /\ handlers[s].op = "users"
          /\ handlers[s].pc = "idle"
          /\ handlers[s].resp.status = 200

\* ---------------------------------------------------------------------------
\* C27, C28: the fields of a ledger entry

\* C27: every entry of the ledger of the SQLite wallet revision has
\* 0 <= score <= max_score with max_score a positive integer
C27_SqliteScoreWithinMax ==
    \A i \in DOMAIN scores :
        /\ scores[i].max_score > 0
        /\ 0 <= scores[i].score
        /\ scores[i].score <= scores[i].max_score

\* C28: every entry of the ledger of the SQLite wallet revision has one of the
\* six difficulties, in lowercase
C28_SqliteDifficultyInSet ==
    \A i \in DOMAIN scores :
        /\ scores[i].difficulty.body \in ValidDifficulties
        /\ ~scores[i].difficulty.upper

(***************************************************************************)
(* The MongoDB revision used by clients that write one identifier in       *)
(* different letter cases: the requests received in slot 1 carry it in     *)
(* lower case, those of the other slots with upper-case letters.           *)
(***************************************************************************)
CaseWallet(s) == IF s = 1 THEN Plain("0xa") ELSE Str("0xa", TRUE, 0)

CaseUsersBody(s) ==
    [walletAddress |-> CaseWallet(s), username |-> Plain("Alice"),
     profilePictureUrl |-> Undefined]

CaseScoresBody(s) ==
    [walletAddress |-> CaseWallet(s), quizId |-> Plain("q1"), score |-> Num(2),
     difficulty |-> Plain("medium"), maxScore |-> Undefined]

NextCase ==
    \/ Connect
    \/ \E s \in Slots : UsersReceive(s, CaseUsersBody(s))
    \/ \E s \in Slots : \E fail \in BOOLEAN : UsersGetUser(s, fail)
    \/ \E s \in Slots : \E fail \in BOOLEAN : UsersUpdateUser(s, fail)
    \/ \E s \in Slots : \E fail \in BOOLEAN : UsersCreateUser(s, fail)
    \/ \E s \in Slots : ScoresReceive(s, CaseScoresBody(s))
    \/ \E s \in Slots : \E fail \in BOOLEAN : ScoresGetUser(s, fail)
    \/ \E s \in Slots : \E fail \in BOOLEAN : ScoresCreateScore(s, fail)
    \/ \E s \in Slots : \E fail \in BOOLEAN : ScoresUpdateTotal(s, fail)
    \/ \E s \in Slots : GetUserReceive(s, CaseWallet(s))
    \/ \E s \in Slots : \E fail \in BOOLEAN : GetUserGetUser(s, fail)
    \/ \E s \in Slots : \E fail \in BOOLEAN : GetUserGetStats(s, fail)
    \/ \E s \in Slots : HistoryReceive(s, CaseWallet(s), Undefined, Undefined)
    \/ \E s \in Slots : \E fail \in BOOLEAN : HistoryGetUser(s, fail)
    \/ \E s \in Slots : \E fail \in BOOLEAN : HistoryFind(s, fail)
    \/ \E s \in Slots : \E fail \in BOOLEAN : HistoryCount(s, fail)

SpecCase == Init /\ [][NextCase]_vars

\* ---------------------------------------------------------------------------
\* C30: identifiers that differ in letter case only

C31_LedgerKeyIsParticipant ==
    \A i \in DOMAIN scores :
        \E j \in DOMAIN users : users[j].walletAddress = scores[i].walletAddress

(***************************************************************************)
(* The MongoDB revision with marks whose percentage lies between two whole *)
(* numbers: 16 of 23 is 69.56..., which Math.round reports as 70.          *)
(***************************************************************************)
RoundingMarks ==
    {<<Num(16), Num(23)>>, <<Num(13), Undefined>>, <<Num(14), Undefined>>,
     <<Num(7), Num(10)>>}

RoundingBodies ==
    {[walletAddress |-> Plain("0xa"), quizId |-> q, score |-> m[1],
      difficulty |-> Plain("easy"), maxScore |-> m[2]] :
        q \in {Plain("q1"), Plain("q2")}, m \in RoundingMarks}

NextRounding ==
    \/ Connect
    \/ \E s \in Slots : \E body \in RewardUsersBodies : UsersReceive(s, body)
    \/ \E s \in Slots : \E fail \in BOOLEAN : UsersGetUser(s, fail)
    \/ \E s \in Slots : \E fail \in BOOLEAN : UsersUpdateUser(s, fail)
    \/ \E s \in Slots : \E fail \in BOOLEAN : UsersCreateUser(s, fail)
    \/ \E s \in Slots : \E body \in RoundingBodies : ScoresReceive(s, body)
    \/ \E s \in Slots : \E fail \in BOOLEAN : ScoresGetUser(s, fail)
    \/ \E s \in Slots : \E fail \in BOOLEAN : ScoresCreateScore(s, fail)
    \/ \E s \in Slots : \E fail \in BOOLEAN : ScoresUpdateTotal(s, fail)

SpecRounding == Init /\ [][NextRounding]_vars

\* ---------------------------------------------------------------------------
\* C32: the reported percentage and the reward flag

\* C32: in every 201 response to a submission, eligibleForReward is true
\* exactly when the reported percentage is at least 70
C32_FlagAgreesWithReportedPercentage ==
    \A s \in Slots :
        (/\ handlers[s].op = "scores"
         /\ handlers[s].pc = "idle"
         /\ handlers[s].resp.status = 201)
        => LET data == handlers[s].resp.data
           IN  data.eligibleForReward = (data.percentage >= RewardThreshold)

(***************************************************************************)
(* The MongoDB revision with store operations that complete or fail: every *)
(* await of a submission handler is eventually resumed, with a result or   *)
(* with an error.                                                          *)
(***************************************************************************)
LiveUsersBodies ==
    {[walletAddress |-> Plain("0xa"), username |-> Plain("Alice"),
      profilePictureUrl |-> Undefined]}

\* accepted, sent with a leading space, of an unknown participant, without score
LiveScoresBodies ==
    {[walletAddress |-> w, quizId |-> Plain("q1"), score |-> Num(1),
      difficulty |-> Plain("medium"), maxScore |-> Undefined] :
        w \in {Plain("0xa"), Str("0xa", FALSE, 1), Plain("0xb")}}
    \cup
    {[walletAddress |-> Plain("0xa"), quizId |-> Plain("q1"), score |-> Undefined,
      difficulty |-> Plain("medium"), maxScore |-> Undefined]}

NextLive ==
    \/ Connect
    \/ \E s \in Slots : \E body \in LiveUsersBodies : UsersReceive(s, body)
    \/ \E s \in Slots : \E fail \in BOOLEAN : UsersGetUser(s, fail)
    \/ \E s \in Slots : \E fail \in BOOLEAN : UsersUpdateUser(s, fail)
    \/ \E s \in Slots : \E fail \in BOOLEAN : UsersCreateUser(s, fail)
    \/ \E s \in Slots : \E body \in LiveScoresBodies : ScoresReceive(s, body)
    \/ \E s \in Slots : \E fail \in BOOLEAN : ScoresGetUser(s, fail)
    \/ \E s \in Slots : \E fail \in BOOLEAN : ScoresCreateScore(s, fail)
    \/ \E s \in Slots : \E fail \in BOOLEAN : ScoresUpdateTotal(s, fail)

\* every pending store operation of a submission completes or fails
StoreCompletes ==
    \A s \in Slots :
        /\ WF_vars(\E fail \in BOOLEAN : ScoresGetUser(s, fail))
        /\ WF_vars(\E fail \in BOOLEAN : ScoresCreateScore(s, fail))
        /\ WF_vars(\E fail \in BOOLEAN : ScoresUpdateTotal(s, fail))

SpecLive == Init /\ [][NextLive]_vars /\ StoreCompletes

\* ---------------------------------------------------------------------------
\* C33: every submission is answered once

\* created, validation error, participant not found, duplicate conflict,
\* server error, service unavailable
SubmissionOutcomes == {201, 400, 404, 409, 500, 503}

\* C33: a submission handler has sent no response while it waits on the store
\* and exactly one of the six outcomes when it is over, and every submission
\* that waits on the store is eventually answered
C33_SubmissionAnsweredOnce ==
    /\ [](\A s \in Slots :
            handlers[s].op = "scores"
            => /\ (handlers[s].pc = "idle") <=> (handlers[s].resp # Null)
               /\ handlers[s].resp # Null
                  => handlers[s].resp.status \in SubmissionOutcomes)
    /\ \A s \in Slots :
          (handlers[s].op = "scores" /\ handlers[s].pc # "idle")
          ~> (/\ handlers[s].op = "scores"
              /\ handlers[s].pc = "idle"
              /\ handlers[s].resp # Null)

\* one submission was created and the other, which waited on the store three
\* times, was answered with a server error
C33_Witness ==
    /\ handlers[1].op = "scores"
    /\ handlers[1].pc = "idle"
    /\ handlers[1].resp.status = 201
    /\ handlers[2].op = "scores"
    /\ handlers[2].pc = "idle"
    /\ handlers[2].resp.status = 500
    /\ Len(scores) = 2

====
